---- MODULE Spec2Model ----
(***************************************************************************)
(* Sub-agent orchestration and stream reconstruction of OpenChat.          *)
(*                                                                         *)
(*   src/lib/create-agent-tool.ts                  createAgentTool.execute,*)
(*                                                 analyzeSubAgentExecution*)
(*                                                 toModelOutput,          *)
(*                                                 detectProviderErrorInText*)
(*   src/app/components/chat/message-assistant.tsx findCreateAgentBoundaries*)
(*                                                 segmentPartsByAgentBoundaries*)
(*                                                 agentOpenStates effect  *)
(*   src/lib/error-utils.ts                        reconstructAgentContentParts*)
(*                                                 groupAgentDataParts     *)
(*   src/components/common/upgrade-drawer.tsx      handlePlanSelect        *)
(*                                                                         *)
(* Eleven specifications share the variables:                              *)
(*   Spec            concurrent execute() invocations writing to one writer*)
(*   SpecResolve     the checks of execute ahead of the run, any request   *)
(*   SpecLive        a single run under fairness of the model's steps      *)
(*   SpecAnalysis    analyzeSubAgentExecution applied to bounded inputs    *)
(*   SpecSegments    a consumer-side part list that grows by appended parts*)
(*   SpecClassify    the error classifier applied to bounded texts         *)
(*   SpecModelOutput toModelOutput applied to result strings               *)
(*   SpecContent     the step events of one agent group, as they arrive    *)
(*   SpecGroups      the agent data parts of a message, grouped by agent   *)
(*   SpecCheckout    clicks on a plan and the checkout requests they start *)
(*   SpecOpenStates  stream updates and toggles of the agent segments      *)
(***************************************************************************)
EXTENDS Integers, Sequences, FiniteSets, TLC

\* ------------------------------------------------------------------ bounds
\* text deltas and tool calls the model runs produce, all runs together
MaxEvents == 2
\* the step budget handed to createAgentTool (option maxSteps, default 8)
maxSteps == 2
\* longest output body and padding drawn for analyzeSubAgentExecution
MaxBody == 30
MaxPad == 1
\* tool calls drawn for analyzeSubAgentExecution
MaxToolCalls == 2
\* longest consumer-side part list
MaxParts == 4
\* longest toolkit list drawn for the checks ahead of the run
MaxNames == 3

\* ------------------------------------------------------- program constants
\* finalText.length > 25
SubstantialLen == 25

\* an absent string (undefined) and an absent object (null)
None == "none"
Null == [null |-> TRUE]

\* ----------------------------------------------------------------- strings
\* A string is a sequence of one-character strings.
RECURSIVE Rep(_, _)
Rep(c, n) == IF n = 0 THEN <<>> ELSE <<c>> \o Rep(c, n - 1)

IsSpace(c) == c = " "

RECURSIVE TrimStart(_)
TrimStart(s) ==
    IF s = <<>> THEN <<>>
    ELSE IF IsSpace(Head(s)) THEN TrimStart(Tail(s)) ELSE s

RECURSIVE TrimEnd(_)
TrimEnd(s) ==
    IF s = <<>> THEN <<>>
    ELSE IF IsSpace(s[Len(s)]) THEN TrimEnd(SubSeq(s, 1, Len(s) - 1)) ELSE s

\* String.prototype.trim
Trim(s) == TrimEnd(TrimStart(s))

UpperChar(c) ==
    CASE c = "g" -> "G"
      [] c = "m" -> "M"
      [] c = "n" -> "N"
      [] c = "x" -> "X"
      [] OTHER -> c

\* String.prototype.toUpperCase
toUpperCase(s) == [i \in DOMAIN s |-> UpperChar(s[i])]

\* variant: the names are not passed through a Set
DedupNone(xs) == xs

\* Array.from(new Set(xs)): first occurrences, in order
RECURSIVE Dedup(_)
Dedup(xs) ==
    IF xs = <<>> THEN <<>>
    ELSE LET init == Dedup(SubSeq(xs, 1, Len(xs) - 1))
             last == xs[Len(xs)]
         IN  IF \E i \in DOMAIN init : init[i] = last
             THEN init ELSE Append(init, last)

Range(xs) == {xs[i] : i \in DOMAIN xs}

Min(a, b) == IF a < b THEN a ELSE b
Max(a, b) == IF a > b THEN a ELSE b

\* String.prototype.slice(0, n)
Slice0(s, n) == SubSeq(s, 1, Min(Len(s), n))

\* variant: only the first element is named
JoinFirst(xs) == IF xs = <<>> THEN <<>> ELSE xs[1]

\* Array.prototype.join(", ") over one-character-sequence strings
RECURSIVE Join(_)
Join(xs) ==
    IF xs = <<>> THEN <<>>
    ELSE IF Len(xs) = 1 THEN xs[1]
    ELSE xs[1] \o <<",", " ">> \o Join(Tail(xs))

\* ------------------------------------------------ analyzeSubAgentExecution
\* finalText.slice(0, 300)
SummaryLen == 300

FinishReasons == {"stop", "length", "tool-calls", "error", "other"}

\* onError: error instanceof Error ? error : new Error(String(error))
\* A raw error is an Error object with a message or any other thrown value.
onError(raw) ==
    IF raw.isError THEN [message |-> raw.message]
    ELSE [message |-> raw.value]

\* variant: a run without tool calls counts as having attempted tools
attemptedToolsAlways(toolCalls) == Len(toolCalls) >= 0

attemptedTools(toolCalls) == Len(toolCalls) > 0

\* variant: only the finish reason stop counts as a normal finish
normalFinishStopOnly(finishReason) == finishReason = "stop"

normalFinish(finishReason) == finishReason = "stop" \/ finishReason = "length"

\* variant: the threshold itself counts as substantial
hasSubstantialOutputAtLeast(finalText) == Len(finalText) >= SubstantialLen

hasSubstantialOutput(finalText) == Len(finalText) > SubstantialLen

hasError(subAgentError) == subAgentError # Null

\* variant: no fallback for an empty message
ErrorIssueNoFallback(subAgentError) == "Error: " \o subAgentError.message

\* `Error: ${subAgentError?.message || "Unknown error"}`
ErrorIssue(subAgentError) ==
    "Error: " \o (IF subAgentError.message # "" THEN subAgentError.message
                  ELSE "Unknown error")

\* variant: the output check is made ahead of the finish-reason checks
analysisIssuesReordered(toolCalls, finishReason, finalText, subAgentError) ==
    (IF hasError(subAgentError) THEN <<ErrorIssue(subAgentError)>> ELSE <<>>)
    \o (IF ~attemptedTools(toolCalls) THEN <<"No tools were called">> ELSE <<>>)
    \o (IF ~hasSubstantialOutput(finalText)
        THEN <<"Insufficient output produced">> ELSE <<>>)
    \o (IF finishReason = "error"
        THEN <<"Sub-agent encountered an error">> ELSE <<>>)
    \o (IF finishReason = "tool-calls"
        THEN <<"Sub-agent stopped mid-execution">> ELSE <<>>)

analysisIssues(toolCalls, finishReason, finalText, subAgentError) ==
    (IF hasError(subAgentError) THEN <<ErrorIssue(subAgentError)>> ELSE <<>>)
    \o (IF ~attemptedTools(toolCalls) THEN <<"No tools were called">> ELSE <<>>)
    \o (IF finishReason = "error"
        THEN <<"Sub-agent encountered an error">> ELSE <<>>)
    \o (IF finishReason = "tool-calls"
        THEN <<"Sub-agent stopped mid-execution">> ELSE <<>>)
    \o (IF ~hasSubstantialOutput(finalText)
        THEN <<"Insufficient output produced">> ELSE <<>>)

analyzeSubAgentExecution(toolCalls, finishReason, finalText, subAgentError) ==
    [ success |-> /\ attemptedTools(toolCalls)
                  /\ normalFinish(finishReason)
                  /\ hasSubstantialOutput(finalText)
                  /\ ~hasError(subAgentError),
      toolCallCount |-> Len(toolCalls),
      toolNames |-> [i \in DOMAIN toolCalls |-> toolCalls[i].toolName],
      finishReason |-> finishReason,
      issues |-> analysisIssues(toolCalls, finishReason, finalText,
                                subAgentError),
      summary |-> Slice0(finalText, SummaryLen),
      errorMessage |-> IF subAgentError = Null THEN None
                       ELSE subAgentError.message ]

\* execute, lines 355-364: the analysis of what the run collected
analyzeRun(toolCalls, finishReason, rawText, subAgentError) ==
    analyzeSubAgentExecution(toolCalls, finishReason, Trim(rawText),
                             subAgentError)

\* ------------------------------------------------- createAgentTool.execute
\* One execute() invocation per boundary id; the id minted at line 322
\* (time stamp plus random suffix) is taken to be unique per invocation.
BoundaryIds == {"B1", "B2"}

VARIABLES
    userId,             \* option userId (None: no session)
    availableToolkits,  \* option availableToolkits
    writer,             \* the shared UIMessageStreamWriter: parts written so far
    pc,                 \* where each invocation of execute stands
    input,              \* the input of each invocation
    requestedToolkits,  \* its normalized toolkit list
    composioCalls,      \* the arguments of its call of getComposioTools
    rawTools,           \* what getComposioTools resolved to (<<>> before)
    filteredTools,      \* its tool set
    thrown,             \* the error execute rejected with
    returned,           \* the analysis execute returned
    stream,             \* chunks streamText has produced for the run
    modelState,         \* "none", "running", "done"
    stepCount,          \* generation steps finished
    toolCalls,          \* steps.flatMap(step => step.toolCalls)
    finishReason,       \* what result.finishReason resolves to
    rejects,            \* result.steps / result.finishReason reject
    subAgentError,      \* written by onError
    agentTokenUsage,    \* written by onFinish
    merged,             \* writer.merge(result.toUIMessageStream()) was called
    mergeRead,          \* chunks the merge has forwarded to the writer
    textRead,           \* text deltas the for-await over textStream has consumed
    finalText           \* text collected by execute

execVars == <<userId, availableToolkits, writer, pc, input, requestedToolkits,
              composioCalls, rawTools, filteredTools, thrown, returned, stream,
              modelState, stepCount, toolCalls, finishReason, rejects, subAgentError,
              agentTokenUsage, merged, mergeRead, textRead, finalText>>

\* toolkit names of the model: "g" gmail, "n" notion, "x" not available
ExecInputs ==
    { [tool |-> [isArray |-> FALSE, name |-> <<" ">>],
       task |-> <<"t">>, context |-> None],
      [tool |-> [isArray |-> TRUE, value |-> << <<"g">>, <<"x">> >>],
       task |-> <<"t">>, context |-> None],
      [tool |-> [isArray |-> TRUE,
                 value |-> << <<" ", "n">>, <<"g">>, <<"G", " ">> >>],
       task |-> <<"t">>, context |-> "ctx"] }

\* what getComposioTools may resolve to: candidates with or without execute
RawToolSets ==
    { <<>>,
      << [toolName |-> "T2", hasExecute |-> FALSE] >>,
      << [toolName |-> "T1", hasExecute |-> TRUE],
         [toolName |-> "T2", hasExecute |-> FALSE] >> }

\* the error the generation loop hands to onError (thrown values that are
\* not Error objects are drawn in SpecAnalysis)
RawErrors == { [isError |-> TRUE, message |-> "boom"] }

\* the text of one text-delta chunk
Delta == Rep("a", SubstantialLen + 1) \o <<" ">>

ZeroUsage == [inputTokens |-> 0, outputTokens |-> 0, totalTokens |-> 0]
SomeUsage == [inputTokens |-> 3, outputTokens |-> 4, totalTokens |-> 7]

\* lines 212-221
\* (tool is [isArray |-> TRUE, value |-> names] for an array of names and
\* [isArray |-> FALSE, name |-> name] for one name)
toolValues(in) == IF in.tool.isArray THEN in.tool.value ELSE <<in.tool.name>>

\* variant: empty names are kept
NonEmptyAlways(value) == Len(value) >= 0

NonEmpty(value) == Len(value) > 0

normalizeToolkits(values) ==
    LET trimmed == [i \in DOMAIN values |-> Trim(values[i])]
        kept == SelectSeq(trimmed, NonEmpty)
    IN  Dedup([i \in DOMAIN kept |-> toUpperCase(kept[i])])

\* variant: every requested toolkit passes for available
unavailableToolkitsNone(requested, available) == <<>>

\* lines 231-236
unavailableToolkits(requested, available) ==
    LET availableSet == {toUpperCase(available[i]) : i \in DOMAIN available}
        Missing(slug) == slug \notin availableSet
    IN  SelectSeq(requested, Missing)

\* lines 245-255
HasExecute(candidate) == candidate.hasExecute

\* variant: every candidate is kept
filterToolsAll(resolved) == resolved

filterTools(resolved) == SelectSeq(resolved, HasExecute)

\* lines 325-338
StartMarker(b, in, toolkits) ==
    [ type |-> "data-agent-boundary",
      id |-> <<b, "start">>,
      data |-> [ type |-> "start", agentId |-> "create_agent",
                 boundaryId |-> b, task |-> in.task,
                 toolkits |-> toolkits, context |-> in.context ] ]

\* lines 367-385
EndMarker(b, analysis, usage) ==
    [ type |-> "data-agent-boundary",
      id |-> <<b, "end">>,
      data |-> [ type |-> "end", agentId |-> "create_agent",
                 boundaryId |-> b, analysis |-> analysis,
                 toolSummary |-> [ toolsUsed |-> analysis.toolNames,
                                   toolCallCount |-> analysis.toolCallCount,
                                   finishReason |-> analysis.finishReason,
                                   success |-> analysis.success ],
                 tokenUsage |-> usage ] ]

\* a chunk of result.toUIMessageStream() as the merge forwards it; run and
\* seq record which run produced it and at which position
InternalPart(b, k, chunk) ==
    [ type |-> chunk.type, run |-> b, seq |-> k ]

\* ---------------------------------------- state of the two other specifications
VARIABLES
    anaInput,   \* the arguments drawn for analyzeSubAgentExecution
    analysis,   \* its result (None before the call)
    parts       \* the consumer-side part list of one assistant message

\* ------------------------------------------ state of the consumer-side checks
VARIABLES
    agentSteps,    \* the step events of one agent group, as received so far
    errorInput,    \* the arguments drawn for detectProviderErrorInText
    detectedError, \* its result
    resultInput,   \* the result string handed to toModelOutput
    modelOutput    \* what toModelOutput returned

\* ---------------------------------- state of the components of the client
VARIABLES
    agentOpenStates,      \* MessageAssistantInner: useState agentOpenStates
    agentManualOverrides, \* its ref agentManualOverrides (keys set to true)
    user,                 \* useUser().user as last rendered (Null: none)
    products,             \* useUser().products as last rendered
    isCheckoutInFlight,   \* the ref of one UpgradeDrawer / UpgradeModal
    checkoutRequests,     \* its generateCheckoutLink calls, in start order
    locationHref,         \* window.location.href once assigned
    routerPath,           \* the path last pushed to the router
    lastSelect            \* the latest handlePlanSelect call and how it ended

openVars == <<agentOpenStates, agentManualOverrides>>
checkoutVars == <<user, products, isCheckoutInFlight, checkoutRequests,
                  locationHref, routerPath, lastSelect>>
uiVars == <<openVars, checkoutVars>>

anaVars == <<anaInput, analysis>>
segVars == <<parts, uiVars>>
clientVars == <<agentSteps, errorInput, detectedError, resultInput, modelOutput>>
vars == <<execVars, anaVars, segVars, clientVars>>

AnaIdle == anaInput = Null /\ analysis = Null
OpenIdle ==
    /\ agentOpenStates = [key \in {} |-> TRUE]
    /\ agentManualOverrides = {}
CheckoutIdle ==
    /\ user = Null
    /\ products = Null
    /\ isCheckoutInFlight = FALSE
    /\ checkoutRequests = <<>>
    /\ locationHref = None
    /\ routerPath = None
    /\ lastSelect = [planId |-> None, outcome |-> None, tick |-> 0]
UiIdle == OpenIdle /\ CheckoutIdle
SegIdle == parts = <<>> /\ UiIdle
ClientIdle ==
    /\ agentSteps = <<>>
    /\ errorInput = Null
    /\ detectedError = Null
    /\ resultInput = Null
    /\ modelOutput = Null

ExecIdle ==
    /\ userId = None
    /\ availableToolkits = <<>>
    /\ writer = <<>>
    /\ pc = [b \in BoundaryIds |-> "idle"]
    /\ input = [b \in BoundaryIds |-> Null]
    /\ requestedToolkits = [b \in BoundaryIds |-> <<>>]
    /\ composioCalls = [b \in BoundaryIds |-> Null]
    /\ rawTools = [b \in BoundaryIds |-> <<>>]
    /\ filteredTools = [b \in BoundaryIds |-> <<>>]
    /\ thrown = [b \in BoundaryIds |-> Null]
    /\ returned = [b \in BoundaryIds |-> Null]
    /\ stream = [b \in BoundaryIds |-> <<>>]
    /\ modelState = [b \in BoundaryIds |-> "none"]
    /\ stepCount = [b \in BoundaryIds |-> 0]
    /\ toolCalls = [b \in BoundaryIds |-> <<>>]
    /\ finishReason = [b \in BoundaryIds |-> None]
    /\ rejects = [b \in BoundaryIds |-> FALSE]
    /\ subAgentError = [b \in BoundaryIds |-> Null]
    /\ agentTokenUsage = [b \in BoundaryIds |-> ZeroUsage]
    /\ merged = [b \in BoundaryIds |-> FALSE]
    /\ mergeRead = [b \in BoundaryIds |-> 0]
    /\ textRead = [b \in BoundaryIds |-> 0]
    /\ finalText = [b \in BoundaryIds |-> <<>>]

\* createAgentTool({...}): the options of the tool instance
Init ==
    /\ userId \in {None, "user"}
    /\ availableToolkits = << <<"g">>, <<"n">> >>
    /\ writer = <<>>
    /\ pc = [b \in BoundaryIds |-> "idle"]
    /\ input = [b \in BoundaryIds |-> Null]
    /\ requestedToolkits = [b \in BoundaryIds |-> <<>>]
    /\ composioCalls = [b \in BoundaryIds |-> Null]
    /\ rawTools = [b \in BoundaryIds |-> <<>>]
    /\ filteredTools = [b \in BoundaryIds |-> <<>>]
    /\ thrown = [b \in BoundaryIds |-> Null]
    /\ returned = [b \in BoundaryIds |-> Null]
    /\ stream = [b \in BoundaryIds |-> <<>>]
    /\ modelState = [b \in BoundaryIds |-> "none"]
    /\ stepCount = [b \in BoundaryIds |-> 0]
    /\ toolCalls = [b \in BoundaryIds |-> <<>>]
    /\ finishReason = [b \in BoundaryIds |-> None]
    /\ rejects = [b \in BoundaryIds |-> FALSE]
    /\ subAgentError = [b \in BoundaryIds |-> Null]
    /\ agentTokenUsage = [b \in BoundaryIds |-> ZeroUsage]
    /\ merged = [b \in BoundaryIds |-> FALSE]
    /\ mergeRead = [b \in BoundaryIds |-> 0]
    /\ textRead = [b \in BoundaryIds |-> 0]
    /\ finalText = [b \in BoundaryIds |-> <<>>]
    /\ AnaIdle
    /\ SegIdle
    /\ ClientIdle

modelVars == <<stream, modelState, stepCount, toolCalls, finishReason,
               rejects, subAgentError, agentTokenUsage>>
readerVars == <<merged, mergeRead, textRead, finalText>>
optionVars == <<userId, availableToolkits>>

\* variant: an empty user id counts as a session
hasSessionDefined(uid) == uid # None

\* line 227: !userId is true of undefined and of the empty string
hasSession(uid) == uid # None /\ uid # ""

\* execute, lines 212-244, called with the input in: normalization and the
\* checks before the handler fetch; getComposioTools is called with the user
\* id and the normalized list and the invocation suspends at the await
ExecuteWith(b, in) ==
    /\ pc[b] = "idle"
    /\ LET requested == normalizeToolkits(toolValues(in))
           unavailable == unavailableToolkits(requested, availableToolkits)
       IN  /\ input' = [input EXCEPT ![b] = in]
           /\ requestedToolkits' = [requestedToolkits EXCEPT ![b] = requested]
           /\ IF Len(requested) = 0
              THEN /\ thrown' = [thrown EXCEPT ![b] =
                         [error |-> "At least one connector toolkit must be specified."]]
                   /\ pc' = [pc EXCEPT ![b] = "thrown"]
                   /\ UNCHANGED composioCalls
              ELSE IF ~hasSession(userId)
              THEN /\ thrown' = [thrown EXCEPT ![b] =
                         [error |-> "User session required to use connectors."]]
                   /\ pc' = [pc EXCEPT ![b] = "thrown"]
                   /\ UNCHANGED composioCalls
              ELSE IF Len(unavailable) > 0
              THEN /\ thrown' = [thrown EXCEPT ![b] =
                         [error |-> "Unavailable connectors requested",
                          names |-> Join(unavailable)]]
                   /\ pc' = [pc EXCEPT ![b] = "thrown"]
                   /\ UNCHANGED composioCalls
              ELSE /\ composioCalls' = [composioCalls EXCEPT ![b] =
                         [userId |-> userId, toolkits |-> requested]]
                   /\ pc' = [pc EXCEPT ![b] = "fetching"]
                   /\ UNCHANGED thrown
    /\ UNCHANGED <<optionVars, writer, rawTools, filteredTools, returned,
                   modelVars, readerVars, anaVars, segVars, clientVars>>

\* an invocation of execute by the outer model
Execute(b) == \E in \in ExecInputs : ExecuteWith(b, in)

\* variant: the start marker is not written ahead of the merge
writeStartSkipped(w, b, in, toolkits) == w

\* lines 325-341: the start marker, then the merge of the run's UI stream
writeStart(w, b, in, toolkits) == Append(w, StartMarker(b, in, toolkits))

\* execute, lines 244-345: getComposioTools resolves; the tool set is
\* filtered; streamText starts the run; the start marker is written and the
\* UI stream merged, all before the first await on result.textStream
FetchTools(b) ==
    /\ pc[b] = "fetching"
    /\ \E resolved \in RawToolSets :
         LET tools == filterTools(resolved)
         IN  /\ rawTools' = [rawTools EXCEPT ![b] = resolved]
             /\ IF Len(tools) = 0
                THEN /\ thrown' = [thrown EXCEPT ![b] =
                           [error |-> "No connector tools available for the requested selection."]]
                     /\ pc' = [pc EXCEPT ![b] = "thrown"]
                     /\ UNCHANGED <<filteredTools, modelState, writer, merged>>
                ELSE /\ filteredTools' = [filteredTools EXCEPT ![b] = tools]
                     /\ modelState' = [modelState EXCEPT ![b] = "running"]
                     /\ writer' = writeStart(writer, b, input[b],
                                             requestedToolkits[b])
                     /\ merged' = [merged EXCEPT ![b] = TRUE]
                     /\ pc' = [pc EXCEPT ![b] = "consuming"]
                     /\ UNCHANGED thrown
    /\ UNCHANGED <<optionVars, input, requestedToolkits, composioCalls,
                   returned, stream, stepCount, toolCalls, finishReason,
                   rejects, subAgentError, agentTokenUsage, mergeRead,
                   textRead, finalText, anaVars, segVars, clientVars>>

\* text deltas and tool calls produced so far by all runs
ContentChunks ==
    {<<b, i>> \in BoundaryIds \X (1..(MaxEvents + 2)) :
        /\ i \in DOMAIN stream[b]
        /\ stream[b][i].type \in {"text-delta", "tool-call"}}

\* streamText: the model emits a text delta
ModelTextDelta(b) ==
    /\ modelState[b] = "running"
    /\ Cardinality(ContentChunks) < MaxEvents
    /\ stream' = [stream EXCEPT ![b] =
                    Append(@, [type |-> "text-delta", text |-> Delta])]
    /\ UNCHANGED <<optionVars, writer, pc, input, requestedToolkits,
                   composioCalls, rawTools, filteredTools, thrown, returned,
                   modelState, stepCount, toolCalls, finishReason, rejects,
                   subAgentError, agentTokenUsage, readerVars, anaVars,
                   segVars, clientVars>>

\* variant: the loop stops one step late
budgetExhaustedLate(steps) == steps > maxSteps

\* stopWhen: stepCountIs(maxSteps)
budgetExhausted(steps) == steps >= maxSteps

\* streamText: a step in which the model calls a tool; the loop goes on to
\* the next step unless the step budget is used up (line 305), in which case
\* the run finishes with reason tool-calls and onFinish records the usage
ModelToolCall(b) ==
    /\ modelState[b] = "running"
    /\ Cardinality(ContentChunks) < MaxEvents
    /\ toolCalls' = [toolCalls EXCEPT ![b] =
                       Append(@, [toolName |-> filteredTools[b][1].toolName])]
    /\ stepCount' = [stepCount EXCEPT ![b] = @ + 1]
    /\ IF budgetExhausted(stepCount[b] + 1)
       THEN /\ stream' = [stream EXCEPT ![b] =
                            @ \o <<[type |-> "tool-call"], [type |-> "finish"]>>]
            /\ modelState' = [modelState EXCEPT ![b] = "done"]
            /\ finishReason' = [finishReason EXCEPT ![b] = "tool-calls"]
            /\ agentTokenUsage' = [agentTokenUsage EXCEPT ![b] = SomeUsage]
       ELSE /\ stream' = [stream EXCEPT ![b] = Append(@, [type |-> "tool-call"])]
            /\ UNCHANGED <<modelState, finishReason, agentTokenUsage>>
    /\ UNCHANGED <<optionVars, writer, pc, input, requestedToolkits,
                   composioCalls, rawTools, filteredTools, thrown, returned,
                   rejects, subAgentError, readerVars, anaVars, segVars, clientVars>>

\* streamText: the model ends the run in a step without tool calls; onFinish
\* (lines 312-318) records the usage.  (The reasons other than stop are drawn
\* for analyzeSubAgentExecution in SpecAnalysis.)
ModelFinish(b) ==
    /\ modelState[b] = "running"
    /\ \E reason \in {"stop"} :
         finishReason' = [finishReason EXCEPT ![b] = reason]
    /\ stepCount' = [stepCount EXCEPT ![b] = @ + 1]
    /\ stream' = [stream EXCEPT ![b] = Append(@, [type |-> "finish"])]
    /\ modelState' = [modelState EXCEPT ![b] = "done"]
    /\ agentTokenUsage' = [agentTokenUsage EXCEPT ![b] = SomeUsage]
    /\ UNCHANGED <<optionVars, writer, pc, input, requestedToolkits,
                   composioCalls, rawTools, filteredTools, thrown, returned,
                   toolCalls, rejects, subAgentError, readerVars, anaVars,
                   segVars, clientVars>>

\* streamText: the run fails; onError (lines 308-311) captures the error and
\* the stream ends with an error chunk.  When no step was recorded the
\* promises result.steps and result.finishReason reject, otherwise they
\* resolve with the reason error.  onFinish is not called.
ModelError(b) ==
    /\ modelState[b] = "running"
    /\ \E raw \in RawErrors, rejected \in BOOLEAN :
         /\ rejected => stepCount[b] = 0
         /\ subAgentError' = [subAgentError EXCEPT ![b] = onError(raw)]
         /\ rejects' = [rejects EXCEPT ![b] = rejected]
         /\ finishReason' = [finishReason EXCEPT ![b] =
                               IF rejected THEN None ELSE "error"]
         /\ stepCount' = [stepCount EXCEPT ![b] =
                            IF rejected THEN @ ELSE @ + 1]
    /\ stream' = [stream EXCEPT ![b] = Append(@, [type |-> "error"])]
    /\ modelState' = [modelState EXCEPT ![b] = "done"]
    /\ UNCHANGED <<optionVars, writer, pc, input, requestedToolkits,
                   composioCalls, rawTools, filteredTools, thrown, returned,
                   toolCalls, agentTokenUsage, readerVars, anaVars, segVars, clientVars>>

\* writer.merge (line 341): the writer's reader loop forwards the next chunk
\* of result.toUIMessageStream() to the shared stream.  The loop runs on its
\* own; execute never awaits it.
\* variant: the reader takes the newest chunk first
mergeNextNewest(read, chunks) == Len(chunks) - read

\* reader.read() of the merge loop: the position of the chunk it yields
\* after `read` chunks were taken, the stream being a queue
mergeNext(read, chunks) == read + 1

MergeForward(b) ==
    /\ merged[b]
    /\ mergeRead[b] < Len(stream[b])
    /\ LET k == mergeNext(mergeRead[b], stream[b])
       IN  writer' = Append(writer, InternalPart(b, k, stream[b][k]))
    /\ mergeRead' = [mergeRead EXCEPT ![b] = @ + 1]
    /\ UNCHANGED <<optionVars, pc, input, requestedToolkits, composioCalls,
                   rawTools, filteredTools, thrown, returned, modelVars,
                   merged, textRead, finalText, anaVars, segVars, clientVars>>

\* result.textStream: the text deltas of the run's stream
IsTextDelta(chunk) == chunk.type = "text-delta"
textStream(chunks) == SelectSeq(chunks, IsTextDelta)

\* lines 344-347: one turn of `for await (const textPart of
\* result.textStream)`; textStream is a branch of its own of the run's
\* stream and passes on the text deltas only
ConsumeText(b) ==
    /\ pc[b] = "consuming"
    /\ textRead[b] < Len(textStream(stream[b]))
    /\ finalText' = [finalText EXCEPT ![b] =
                        @ \o textStream(stream[b])[textRead[b] + 1].text]
    /\ textRead' = [textRead EXCEPT ![b] = @ + 1]
    /\ UNCHANGED <<optionVars, writer, pc, input, requestedToolkits,
                   composioCalls, rawTools, filteredTools, thrown, returned,
                   modelVars, merged, mergeRead, anaVars, segVars, clientVars>>

\* variant: the end marker is written twice
writeEndTwice(w, b, result, usage) ==
    Append(Append(w, EndMarker(b, result, usage)), EndMarker(b, result, usage))

\* lines 367-385
writeEnd(w, b, result, usage) == Append(w, EndMarker(b, result, usage))

\* lines 345-388: the text stream is exhausted and Promise.all over
\* result.steps and result.finishReason settles.  A rejection leaves execute
\* at line 350 (nothing catches it); otherwise the run is analyzed, the end
\* marker written and the analysis returned.
Finish(b) ==
    /\ pc[b] = "consuming"
    /\ modelState[b] = "done"
    /\ textRead[b] = Len(textStream(stream[b]))
    /\ IF rejects[b]
       THEN /\ thrown' = [thrown EXCEPT ![b] =
                            [error |-> "No output generated."]]
            /\ pc' = [pc EXCEPT ![b] = "thrown"]
            /\ UNCHANGED <<writer, returned>>
       ELSE LET result == analyzeRun(toolCalls[b], finishReason[b],
                                     finalText[b], subAgentError[b])
            IN  /\ writer' = writeEnd(writer, b, result, agentTokenUsage[b])
                /\ returned' = [returned EXCEPT ![b] = result]
                /\ pc' = [pc EXCEPT ![b] = "returned"]
                /\ UNCHANGED thrown
    /\ UNCHANGED <<optionVars, input, requestedToolkits, composioCalls,
                   rawTools, filteredTools, modelVars, readerVars, anaVars,
                   segVars, clientVars>>

\* the steps of one invocation and of its run
Run(b) ==
    \/ Execute(b)
    \/ FetchTools(b)
    \/ ModelTextDelta(b)
    \/ ModelToolCall(b)
    \/ ModelFinish(b)
    \/ ModelError(b)
    \/ MergeForward(b)
    \/ ConsumeText(b)
    \/ Finish(b)

Next == \E b \in BoundaryIds : Run(b)

Spec == Init /\ [][Next]_vars

\* ------------------------------------------------------ the wire of a run
IsBoundaryMarker(p) == p.type = "data-agent-boundary"
IsStartOf(p, b) ==
    IsBoundaryMarker(p) /\ p.data.type = "start" /\ p.data.boundaryId = b
IsEndOf(p, b) ==
    IsBoundaryMarker(p) /\ p.data.type = "end" /\ p.data.boundaryId = b
IsInternalOf(p, b) == ~IsBoundaryMarker(p) /\ p.run = b

Settled(b) == pc[b] \in {"returned", "thrown"}

\* C1: once an invocation of execute has settled (returned or rejected),
\* every boundary-start it wrote is followed on the writer by a boundary-end
\* with the same boundaryId; no run leaves an unterminated boundary-start.
C1_StartIsTerminated ==
    \A b \in BoundaryIds :
        Settled(b) =>
            \A i \in DOMAIN writer :
                IsStartOf(writer[i], b) =>
                    \E j \in DOMAIN writer : j > i /\ IsEndOf(writer[j], b)

\* C2: the boundary-end of a run is written after every internal event of
\* that run: no part forwarded by the merge follows the run's boundary-end.
C2_EndAfterInternalEvents ==
    \A b \in BoundaryIds :
        \A i, j \in DOMAIN writer :
            (IsEndOf(writer[i], b) /\ IsInternalOf(writer[j], b)) => j < i

\* C3: every internal event of a run on the writer is preceded by the run's
\* boundary-start, which carries the boundaryId, the task, the normalized
\* requested toolkit names and the context of the invocation.
C3_StartBeforeInternalEvents ==
    \A b \in BoundaryIds :
        \A j \in DOMAIN writer :
            IsInternalOf(writer[j], b) =>
                \E i \in 1..(j - 1) :
                    /\ IsStartOf(writer[i], b)
                    /\ writer[i].data.task = input[b].task
                    /\ writer[i].data.context = input[b].context
                    /\ writer[i].data.toolkits = << <<"N">>, <<"G">> >>
                    /\ \A k \in 1..(i - 1) : ~IsInternalOf(writer[k], b)

\* C3 witness: two internal events of a run have reached the writer while
\* the other run has written its own start marker in between
C3_Witness ==
    \E b, c \in BoundaryIds :
        \E i, j, k \in DOMAIN writer :
            /\ b # c /\ i < k /\ k < j
            /\ IsInternalOf(writer[i], b) /\ IsInternalOf(writer[j], b)
            /\ IsStartOf(writer[k], c)

\* ------------------------- SpecResolve: the checks of execute ahead of the run
\* Toolkit names as a request may spell them.  canon records the connector
\* each spelling stands for (the empty string for a blank name): "GM" gmail,
\* "N" notion, "X" a connector the caller never has unless listed.
Pad == Rep(" ", MaxPad)

RawNames ==
    { [value |-> <<"G", "m">>, canon |-> "GM"],
      [value |-> <<"g", "m">>, canon |-> "GM"],
      [value |-> <<"G", "M">> \o Pad, canon |-> "GM"],
      [value |-> Pad \o <<"N">>, canon |-> "N"],
      [value |-> Pad \o <<"n">> \o Pad, canon |-> "N"],
      [value |-> <<"x">>, canon |-> "X"],
      [value |-> <<"X">> \o Pad, canon |-> "X"],
      [value |-> <<>>, canon |-> ""],
      [value |-> Pad, canon |-> ""] }

NameLists == UNION {[1..n -> RawNames] : n \in 0..MaxNames}

\* CreateAgentInput: tool is one name or a list of names
ResolveInputs ==
    { [tool |-> [isArray |-> TRUE,
                 value |-> [i \in DOMAIN names |-> names[i].value]],
       task |-> <<"t">>, context |-> None,
       canon |-> [i \in DOMAIN names |-> names[i].canon]] :
        names \in NameLists }
    \cup
    { [tool |-> [isArray |-> FALSE, name |-> name.value],
       task |-> <<"t">>, context |-> None,
       canon |-> <<name.canon>>] : name \in RawNames }

\* option availableToolkits, with the connectors each list stands for
AvailableOptions ==
    { [list |-> <<>>, canon |-> {}],
      [list |-> << <<"n">> >>, canon |-> {"N"}],
      [list |-> << <<"G", "m">>, <<"N">> >>, canon |-> {"GM", "N"}],
      [list |-> << <<"x">>, <<"n">>, <<"g", "m">> >>,
       canon |-> {"X", "N", "GM"}] }

\* option userId: absent, empty, present
UserIds == {None, "", "user"}

\* the one invocation followed through the checks
Resolver == "B1"

InitResolve ==
    /\ userId \in UserIds
    /\ availableToolkits \in {option.list : option \in AvailableOptions}
    /\ writer = <<>>
    /\ pc = [b \in BoundaryIds |-> "idle"]
    /\ input = [b \in BoundaryIds |-> Null]
    /\ requestedToolkits = [b \in BoundaryIds |-> <<>>]
    /\ composioCalls = [b \in BoundaryIds |-> Null]
    /\ rawTools = [b \in BoundaryIds |-> <<>>]
    /\ filteredTools = [b \in BoundaryIds |-> <<>>]
    /\ thrown = [b \in BoundaryIds |-> Null]
    /\ returned = [b \in BoundaryIds |-> Null]
    /\ stream = [b \in BoundaryIds |-> <<>>]
    /\ modelState = [b \in BoundaryIds |-> "none"]
    /\ stepCount = [b \in BoundaryIds |-> 0]
    /\ toolCalls = [b \in BoundaryIds |-> <<>>]
    /\ finishReason = [b \in BoundaryIds |-> None]
    /\ rejects = [b \in BoundaryIds |-> FALSE]
    /\ subAgentError = [b \in BoundaryIds |-> Null]
    /\ agentTokenUsage = [b \in BoundaryIds |-> ZeroUsage]
    /\ merged = [b \in BoundaryIds |-> FALSE]
    /\ mergeRead = [b \in BoundaryIds |-> 0]
    /\ textRead = [b \in BoundaryIds |-> 0]
    /\ finalText = [b \in BoundaryIds |-> <<>>]
    /\ AnaIdle
    /\ SegIdle
    /\ ClientIdle

\* execute called with any request of the bounded set
Resolve(b) ==
    /\ pc[b] = "idle"
    /\ \E in \in ResolveInputs : ExecuteWith(b, in)

NextResolve ==
    \/ Resolve(Resolver)
    \/ FetchTools(Resolver)

SpecResolve == InitResolve /\ [][NextResolve]_vars

\* the connectors a request names and those of them the caller lacks
CanonSet(in) == {in.canon[i] : i \in DOMAIN in.canon} \ {""}
CanonAvailable ==
    (CHOOSE option \in AvailableOptions :
        option.list = availableToolkits).canon
CanonMissing(in) == CanonSet(in) \ CanonAvailable

\* the normalized spelling of a connector
CanonName(c) ==
    CASE c = "GM" -> <<"G", "M">>
      [] c = "N" -> <<"N">>
      [] c = "X" -> <<"X">>

Called(b) == input[b] # Null

Contains(s, sub) ==
    \E i \in 1..(Len(s) - Len(sub) + 1) :
        SubSeq(s, i, i + Len(sub) - 1) = sub

FailedUnavailable(b) ==
    /\ pc[b] = "thrown"
    /\ thrown[b].error = "Unavailable connectors requested"
    /\ \A c \in {"GM", "N", "X"} :
         Contains(thrown[b].names, CanonName(c)) <=> c \in CanonMissing(input[b])
    /\ composioCalls[b] = Null
    /\ rawTools[b] = <<>>

\* C12 as stated: a request naming a connector the caller lacks fails with
\* the message that names every such connector, and no handler is fetched.
C12_UnavailableNamesAll ==
    \A b \in BoundaryIds :
        (Called(b) /\ CanonMissing(input[b]) # {}) => FailedUnavailable(b)

\* C12 amended: when a caller identity is present, a request naming a
\* connector the caller lacks fails as a whole, also when other requested
\* connectors are available; the message names every unavailable requested
\* connector and no other, and no handler is fetched.
C12_UnavailableNamesAllWithSession ==
    \A b \in BoundaryIds :
        (Called(b) /\ userId = "user" /\ CanonMissing(input[b]) # {}) =>
            FailedUnavailable(b)

\* C12 witness: notion is available, gmail and X are not, all three requested
C12_Witness ==
    /\ Called(Resolver)
    /\ userId = "user"
    /\ CanonAvailable = {"N"}
    /\ CanonSet(input[Resolver]) = {"GM", "N", "X"}
    /\ pc[Resolver] = "thrown"
    /\ thrown[Resolver].names = <<"X", ",", " ", "G", "M">>

FailedValidation(b) ==
    /\ pc[b] = "thrown"
    /\ thrown[b] = [error |-> "At least one connector toolkit must be specified."]
    /\ composioCalls[b] = Null
    /\ rawTools[b] = <<>>

\* C13: a request with no name, or with blank names only, fails with the
\* validation error and getComposioTools is never called, with or without
\* a user identity.
C13_EmptyRequestFails ==
    \A b \in BoundaryIds :
        (Called(b) /\ CanonSet(input[b]) = {}) => FailedValidation(b)

\* C13 witness: a list of an empty and a blank name, no user identity, every
\* connector available
C13_Witness ==
    /\ Called(Resolver)
    /\ userId = None
    /\ CanonAvailable = {"X", "N", "GM"}
    /\ input[Resolver].tool.isArray
    /\ input[Resolver].tool.value = << <<>>, Pad >>
    /\ FailedValidation(Resolver)

NoDuplicates(xs) == \A i, j \in DOMAIN xs : xs[i] = xs[j] => i = j

\* C14: the effective toolkit list holds each requested connector once, in
\* its normalized spelling, whatever the casing, the blanks, the repetitions
\* and the order of the request; with a caller identity the request passes
\* the availability check exactly if every connector of that set is
\* available, so requests with the same set pass or fail alike.
C14_EffectiveSetIsNormalized ==
    \A b \in BoundaryIds :
        Called(b) =>
            /\ Range(requestedToolkits[b]) =
                  {CanonName(c) : c \in CanonSet(input[b])}
            /\ NoDuplicates(requestedToolkits[b])
            /\ (userId = "user" /\ CanonSet(input[b]) # {}) =>
                  /\ (composioCalls[b] # Null) <=> CanonMissing(input[b]) = {}
                  /\ FailedUnavailable(b) <=> CanonMissing(input[b]) # {}
            /\ composioCalls[b] # Null =>
                  composioCalls[b].toolkits = requestedToolkits[b]

\* C14 witness: ["Gm", " N", "gm"] resolves to [GM, N] and passes
C14_Witness ==
    /\ Called(Resolver)
    /\ input[Resolver].tool.isArray
    /\ input[Resolver].tool.value =
          << <<"G", "m">>, Pad \o <<"N">>, <<"g", "m">> >>
    /\ requestedToolkits[Resolver] = << <<"G", "M">>, <<"N">> >>
    /\ composioCalls[Resolver] # Null

\* C15: a request that names a connector fails with the
\* authentication-required error when no user identity is present, whether
\* or not the connectors it names are available.
C15_NoSessionFails ==
    \A b \in BoundaryIds :
        (Called(b) /\ CanonSet(input[b]) # {} /\ userId \in {None, ""}) =>
            /\ pc[b] = "thrown"
            /\ thrown[b] = [error |-> "User session required to use connectors."]
            /\ composioCalls[b] = Null
            /\ rawTools[b] = <<>>

\* C15 witness: an empty user id and a request for an unavailable connector
C15_Witness ==
    /\ Called(Resolver)
    /\ userId = ""
    /\ CanonMissing(input[Resolver]) = {"X"}
    /\ pc[Resolver] = "thrown"

\* getComposioTools was called and has resolved
Fetched(b) == composioCalls[b] # Null /\ pc[b] # "fetching"

\* C16: getComposioTools is called only after the availability check has
\* passed, with the user id and exactly the normalized requested connectors;
\* the tool set of the run holds the candidates with an execute function
\* and no other; with no such candidate execute fails with the
\* no-tools-available error and the model is not called.
C16_FetchAndFilter ==
    \A b \in BoundaryIds :
        /\ composioCalls[b] # Null =>
              /\ composioCalls[b].userId = "user"
              /\ Range(composioCalls[b].toolkits) =
                    {CanonName(c) : c \in CanonSet(input[b])}
              /\ NoDuplicates(composioCalls[b].toolkits)
              /\ CanonMissing(input[b]) = {}
        /\ Fetched(b) =>
              /\ composioCalls[b] # Null
              /\ \A i \in DOMAIN filteredTools[b] :
                    filteredTools[b][i].hasExecute
              /\ \A i \in DOMAIN rawTools[b] :
                    rawTools[b][i].hasExecute <=>
                        \E j \in DOMAIN filteredTools[b] :
                            filteredTools[b][j] = rawTools[b][i]
              /\ IF \A i \in DOMAIN rawTools[b] : ~rawTools[b][i].hasExecute
                 THEN /\ pc[b] = "thrown"
                      /\ thrown[b] = [error |-> "No connector tools available for the requested selection."]
                      /\ modelState[b] = "none"
                      /\ writer = <<>>
                 ELSE /\ thrown[b] = Null
                      /\ modelState[b] = "running"

\* C16 witness: the fetch resolved to candidates none of which has an
\* execute function
C16_Witness ==
    /\ Fetched(Resolver)
    /\ Len(rawTools[Resolver]) = 1
    /\ pc[Resolver] = "thrown"
    /\ Len(composioCalls[Resolver].toolkits) = 3

\* the four failures of execute ahead of the run (lines 224, 228, 239, 258)
PreRunErrors ==
    { "At least one connector toolkit must be specified.",
      "User session required to use connectors.",
      "Unavailable connectors requested",
      "No connector tools available for the requested selection." }

\* the invocation was refused by one of the checks ahead of the run: by what
\* it threw, or by what it was called with
FailsCheck(b) ==
    \/ /\ thrown[b] # Null
       /\ thrown[b].error \in PreRunErrors
    \/ /\ Called(b)
       /\ \/ ~input[b].tool.isArray /\ input[b].tool.name = <<" ">>
          \/ userId = None
          \/ /\ input[b].tool.isArray
             /\ \E i \in DOMAIN input[b].tool.value :
                  input[b].tool.value[i] = <<"x">>
          \/ /\ Fetched(b)
             /\ \A i \in DOMAIN rawTools[b] : ~rawTools[b][i].hasExecute

\* streamText was never called and nothing of the invocation is on the writer
NoRun(b) ==
    /\ modelState[b] = "none"
    /\ stream[b] = <<>>
    /\ ~merged[b]
    /\ \A i \in DOMAIN writer :
         /\ ~IsStartOf(writer[i], b)
         /\ ~IsEndOf(writer[i], b)
         /\ ~IsInternalOf(writer[i], b)

\* C17: an invocation refused by a check ahead of the run (empty toolkit
\* set, no user identity, unavailable connector, no invocable tool) has
\* thrown without calling the model and without writing a boundary-start or
\* a boundary-end of its own to the writer.
C17_PreRunFailureLeavesNoTrace ==
    \A b \in BoundaryIds :
        FailsCheck(b) =>
            /\ pc[b] = "thrown"
            /\ thrown[b].error \in PreRunErrors
            /\ returned[b] = Null
            /\ NoRun(b)

\* C17 witness: one invocation found no invocable tool while the run of the
\* other has its start marker and an internal event on the writer
C17_Witness ==
    \E b, c \in BoundaryIds :
        /\ b # c
        /\ pc[b] = "thrown"
        /\ thrown[b].error =
              "No connector tools available for the requested selection."
        /\ Len(rawTools[b]) = 1
        /\ \E i, j \in DOMAIN writer :
              IsStartOf(writer[i], c) /\ IsInternalOf(writer[j], c)

\* ------------------------------------------------ SpecLive: the run halts
\* a step of the generation loop comes to its end: the model answers with
\* tool calls, with its final text, or the step fails
ModelStep(b) == ModelToolCall(b) \/ ModelFinish(b) \/ ModelError(b)

\* one invocation followed to its end
NextLive == Run(Resolver)

\* a single run, with the assumption that every step the loop has begun is
\* answered by the model
SpecLive == Init /\ [][NextLive]_vars /\ WF_vars(ModelStep(Resolver))

\* C18: the generation loop of a run never executes more than maxSteps
\* steps, the run is over as soon as the budget is used up, and every run
\* that has started comes to its end.
C18_StepBudgetAndHalt ==
    /\ [](\A b \in BoundaryIds :
            /\ stepCount[b] <= maxSteps
            /\ Len(toolCalls[b]) <= maxSteps
            /\ stepCount[b] >= maxSteps => modelState[b] = "done")
    /\ \A b \in BoundaryIds :
            (modelState[b] = "running") ~> (modelState[b] = "done")

\* C18 witness: the model asked for a tool call in every step until the
\* budget was used up
C18_Witness ==
    \E b \in BoundaryIds :
        /\ stepCount[b] = maxSteps
        /\ Len(toolCalls[b]) = maxSteps
        /\ finishReason[b] = "tool-calls"
        /\ modelState[b] = "done"

\* ------------------------------------------- errors inside the run, markers
\* C19: an invocation whose run reported an error through onError does not
\* throw: once it has settled it has written its boundary-end and returned
\* an analysis with success false and the message of the captured error.
C19_InLoopErrorIsReturned ==
    \A b \in BoundaryIds :
        (Settled(b) /\ subAgentError[b] # Null) =>
            /\ pc[b] = "returned"
            /\ thrown[b] = Null
            /\ returned[b].success = FALSE
            /\ returned[b].errorMessage = subAgentError[b].message
            /\ \E i \in DOMAIN writer : IsEndOf(writer[i], b)

\* C20: on the writer a boundaryId has at most one boundary-start and at
\* most one boundary-end, and a boundary-end comes after the boundary-start
\* of its boundaryId.
C20_AtMostOneEndAfterStart ==
    \A b \in BoundaryIds :
        \A j \in DOMAIN writer :
            /\ IsStartOf(writer[j], b) =>
                  \A k \in (j + 1)..Len(writer) : ~IsStartOf(writer[k], b)
            /\ IsEndOf(writer[j], b) =>
                  /\ \E i \in 1..(j - 1) : IsStartOf(writer[i], b)
                  /\ \A k \in (j + 1)..Len(writer) : ~IsEndOf(writer[k], b)
                  /\ writer[j].id = <<b, "end">>

\* C20 witness: two boundaryIds were open at the same time, then one of
\* them was closed while the other is open still
C20_Witness ==
    \E b, c \in BoundaryIds :
        /\ b # c
        /\ \A k \in DOMAIN writer : ~IsEndOf(writer[k], c)
        /\ \E i, j, k \in DOMAIN writer :
              /\ i < k /\ j < k
              /\ IsStartOf(writer[i], b)
              /\ IsStartOf(writer[j], c)
              /\ IsEndOf(writer[k], b)

\* C21: with several runs writing to the shared writer, the internal events
\* of one run stand on the wire in the order the run produced them,
\* whatever the interleaving with the events of the other runs: of two
\* internal events of a run the earlier written is the earlier produced,
\* and each is the chunk the run produced at that place.
C21_PerRunFifo ==
    \A b \in BoundaryIds :
        \A i, j \in DOMAIN writer :
            (i < j /\ IsInternalOf(writer[i], b) /\ IsInternalOf(writer[j], b))
                => /\ writer[i].seq < writer[j].seq
                   /\ writer[j].seq <= Len(stream[b])
                   /\ writer[i].type = stream[b][writer[i].seq].type
                   /\ writer[j].type = stream[b][writer[j].seq].type

\* C21 witness: an event of another run stands between two events of a run
C21_Witness ==
    \E b, c \in BoundaryIds :
        /\ b # c
        /\ \E i, j, k \in DOMAIN writer :
              /\ i < j /\ j < k
              /\ IsInternalOf(writer[i], b)
              /\ IsInternalOf(writer[j], c)
              /\ IsInternalOf(writer[k], b)

\* C25: execute does not wait for the consumer of the shared writer.  The
\* writer takes every part at once and nothing in the model reads it, so
\* each behaviour is one in which the consumer never reads; the claim is
\* that an invocation whose model run has finished has, once it has taken
\* its last step, written its boundary-end and returned its analysis.
C25_FinishedRunIsReturned ==
    (modelState[Resolver] = "done" /\ Settled(Resolver)) =>
        /\ pc[Resolver] = "returned"
        /\ returned[Resolver] # Null
        /\ \E i \in DOMAIN writer : IsEndOf(writer[i], Resolver)

\* ------------------------------------ SpecAnalysis: analyzeSubAgentExecution
\* an output text: a body of n characters that starts and ends with a letter
\* and has a blank inside, between lead and trail blanks
Body(n) ==
    [i \in 1..n |-> IF i = 2 /\ n >= 3 THEN " " ELSE "a"]

OutputText(lead, n, trail) == Rep(" ", lead) \o Body(n) \o Rep(" ", trail)

\* the tool calls of the steps of a run
ToolCallLists ==
    {[i \in 1..n |-> [toolName |-> IF i = 1 THEN "T1" ELSE "T2"]] :
        n \in 0..MaxToolCalls}

\* what onError may have been handed: nothing, an Error, any other value
AnaErrors ==
    { [thrown |-> FALSE],
      [thrown |-> TRUE, isError |-> TRUE, message |-> "boom"],
      [thrown |-> TRUE, isError |-> TRUE, message |-> ""],
      [thrown |-> TRUE, isError |-> FALSE, value |-> "oops"],
      [thrown |-> TRUE, isError |-> FALSE, value |-> ""] }

\* bodyLen records the length of the body the text was built from
AnaInputs ==
    { [toolCalls |-> tc, finishReason |-> fr,
       rawText |-> OutputText(lead, n, trail), bodyLen |-> n, raw |-> e] :
        tc \in ToolCallLists, fr \in FinishReasons,
        lead \in 0..MaxPad, n \in 0..MaxBody, trail \in 0..MaxPad,
        e \in AnaErrors }

InitAnalysis ==
    /\ anaInput \in AnaInputs
    /\ analysis = Null
    /\ ExecIdle
    /\ SegIdle
    /\ ClientIdle

\* lines 297-311 and 355-364: the captured error (null unless onError ran)
\* and the trimmed text go to analyzeSubAgentExecution
Analyze ==
    /\ analysis = Null
    /\ analysis' = analyzeRun(anaInput.toolCalls, anaInput.finishReason,
                              anaInput.rawText,
                              IF anaInput.raw.thrown THEN onError(anaInput.raw)
                              ELSE Null)
    /\ UNCHANGED <<anaInput, execVars, segVars, clientVars>>

NextAnalysis == Analyze

SpecAnalysis == InitAnalysis /\ [][NextAnalysis]_vars

Analyzed == analysis # Null

\* the message of the captured error, read off the thrown value
RawMessage(raw) == IF raw.isError THEN raw.message ELSE raw.value

\* C7: success is exactly: at least one tool call, finish reason stop or
\* length, more than 25 characters of trimmed output, no captured error; an
\* output of exactly 25 characters is not substantial.
C7_SuccessIsConjunction ==
    Analyzed =>
        /\ analysis.success =
              ( /\ Len(anaInput.toolCalls) > 0
                /\ anaInput.finishReason \in {"stop", "length"}
                /\ anaInput.bodyLen > 25
                /\ ~anaInput.raw.thrown )
        /\ anaInput.bodyLen = 25 => ~analysis.success

\* C7 witness: 25 characters between blanks, everything else in order
C7_Witness ==
    /\ Analyzed
    /\ anaInput.bodyLen = 25
    /\ Len(anaInput.rawText) = 27
    /\ Len(anaInput.toolCalls) = 2
    /\ anaInput.finishReason = "stop"
    /\ ~anaInput.raw.thrown
    /\ ~analysis.success

IssueRank(issue) ==
    CASE issue = "No tools were called" -> 2
      [] issue = "Sub-agent encountered an error" -> 3
      [] issue = "Sub-agent stopped mid-execution" -> 4
      [] issue = "Insufficient output produced" -> 5
      [] OTHER -> 1

Applicable(rank) ==
    CASE rank = 1 -> anaInput.raw.thrown
      [] rank = 2 -> Len(anaInput.toolCalls) = 0
      [] rank = 3 -> anaInput.finishReason = "error"
      [] rank = 4 -> anaInput.finishReason = "tool-calls"
      [] rank = 5 -> anaInput.bodyLen <= 25

\* C8: issues holds exactly the applicable explanations, each once, in the
\* order: captured error, no tools, finish reason error, finish reason
\* tool-calls, insufficient output.
C8_IssuesInFixedOrder ==
    Analyzed =>
        LET issues == analysis.issues
        IN  /\ \A i, j \in DOMAIN issues :
                 i < j => IssueRank(issues[i]) < IssueRank(issues[j])
            /\ \A rank \in 1..5 :
                 Applicable(rank) <=>
                     \E i \in DOMAIN issues : IssueRank(issues[i]) = rank
            /\ \A i \in DOMAIN issues :
                 IssueRank(issues[i]) = 1 =>
                     issues[i] \in {"Error: boom", "Error: oops",
                                    "Error: Unknown error"}

\* C8 witness: four explanations apply at once
C8_Witness ==
    /\ Analyzed
    /\ Len(analysis.issues) = 4
    /\ anaInput.finishReason = "error"

\* C9: with a captured error success is false, whatever the other fields,
\* and issues[0] is "Error: " and the message, "Error: Unknown error" for an
\* empty message.
C9_CapturedErrorFails ==
    (Analyzed /\ anaInput.raw.thrown) =>
        /\ ~analysis.success
        /\ Len(analysis.issues) >= 1
        /\ analysis.issues[1] =
              (IF RawMessage(anaInput.raw) = "" THEN "Error: Unknown error"
               ELSE "Error: " \o RawMessage(anaInput.raw))

\* C9 witness: an error with an empty message in an otherwise successful run
C9_Witness ==
    /\ Analyzed
    /\ anaInput.raw.thrown
    /\ RawMessage(anaInput.raw) = ""
    /\ Len(anaInput.toolCalls) > 0
    /\ anaInput.finishReason = "length"
    /\ anaInput.bodyLen > 25

\* C10: a run without tool calls is not a success and says so in issues.
C10_NoToolCallsFails ==
    (Analyzed /\ Len(anaInput.toolCalls) = 0) =>
        /\ ~analysis.success
        /\ \E i \in DOMAIN analysis.issues :
             analysis.issues[i] = "No tools were called"

\* C10 witness: no tool call, finish reason stop, 30 characters, no error
C10_Witness ==
    /\ Analyzed
    /\ Len(anaInput.toolCalls) = 0
    /\ anaInput.finishReason = "stop"
    /\ anaInput.bodyLen = 30
    /\ ~anaInput.raw.thrown

\* C11: a run with at least one tool call, finish reason stop or length,
\* more than 25 characters of trimmed output and no captured error is a
\* success, and its issues list is empty.
C11_AllChecksPassIsSuccess ==
    ( /\ Analyzed
      /\ Len(anaInput.toolCalls) > 0
      /\ anaInput.finishReason \in {"stop", "length"}
      /\ anaInput.bodyLen > 25
      /\ ~anaInput.raw.thrown ) =>
        /\ analysis.success = TRUE
        /\ analysis.issues = <<>>
        /\ analysis.toolCallCount = Len(anaInput.toolCalls)

\* C11 witness: two tool calls, finish reason length, the longest output
\* between blanks, no error
C11_Witness ==
    /\ Analyzed
    /\ Len(anaInput.toolCalls) = 2
    /\ anaInput.finishReason = "length"
    /\ anaInput.bodyLen = MaxBody
    /\ Len(anaInput.rawText) = MaxBody + 2
    /\ ~anaInput.raw.thrown
    /\ analysis.success
    /\ analysis.issues = <<>>

\* C36: a failed Analysis explains itself: whatever the tool calls, the
\* finish reason, the output and the captured error, success = false comes
\* with at least one issue.
C36_FailureHasIssues ==
    (Analyzed /\ ~analysis.success) => Len(analysis.issues) > 0

\* --------------------------------------------- findCreateAgentBoundaries
\* Indices are zero-based as in the source: part i of a list is parts[i + 1].
isAgentBoundaryPart(part) ==
    /\ part.type = "data-agent-boundary"
    /\ part.data.type \in {"start", "end"}

isCreateAgentToolPart(part) == part.type = "tool-create_agent"

\* part.data.task ?? "", part.data.toolkits ?? [], part.data.result
FieldOr(rec, field, default) ==
    IF field \in DOMAIN rec THEN rec[field] ELSE default

\* Map.prototype.has / get / set / delete on the open boundaries, a Map
\* kept as the sequence of its entries in insertion order
MapHas(map, key) == \E i \in DOMAIN map : map[i].boundaryId = key
MapGet(map, key) ==
    map[CHOOSE i \in DOMAIN map : map[i].boundaryId = key]
MapSet(map, key, entry) ==
    IF MapHas(map, key)
    THEN [i \in DOMAIN map |-> IF map[i].boundaryId = key THEN entry
                               ELSE map[i]]
    ELSE Append(map, entry)
IsNot(key, entry) == entry.boundaryId # key
MapDelete(map, key) ==
    LET Keep(entry) == IsNot(key, entry) IN SelectSeq(map, Keep)

\* variant: an end marker without an open start closes a boundary of its own
danglingEndCloses(st, part, index) ==
    [st EXCEPT !.boundaries =
        Append(@, [boundaryId |-> part.data.boundaryId,
                   startIndex |-> index,
                   endIndex |-> index,
                   task |-> <<>>,
                   toolkits |-> <<>>,
                   result |-> FieldOr(part.data, "result", None)])]

\* lines 218-229: openBoundaries.get gives no startInfo, nothing is done
danglingEnd(st, part, index) == st

\* lines 208-232: one turn of the first parts.forEach
scanPart(st, part, index) ==
    IF isAgentBoundaryPart(part) /\ part.data.agentId = "create_agent"
    THEN IF part.data.type = "start"
         THEN [st EXCEPT !.open =
                 MapSet(@, part.data.boundaryId,
                        [boundaryId |-> part.data.boundaryId,
                         startIndex |-> index,
                         task |-> FieldOr(part.data, "task", <<>>),
                         toolkits |-> FieldOr(part.data, "toolkits", <<>>)])]
         ELSE IF MapHas(st.open, part.data.boundaryId)
         THEN LET startInfo == MapGet(st.open, part.data.boundaryId)
              IN  [boundaries |->
                     Append(st.boundaries,
                            [boundaryId |-> part.data.boundaryId,
                             startIndex |-> startInfo.startIndex,
                             endIndex |-> index,
                             task |-> startInfo.task,
                             toolkits |-> startInfo.toolkits,
                             result |-> FieldOr(part.data, "result", None)]),
                   open |-> MapDelete(st.open, part.data.boundaryId)]
         ELSE danglingEnd(st, part, index)
    ELSE st

RECURSIVE scanParts(_, _)
scanParts(ps, n) ==
    IF n = 0 THEN [boundaries |-> <<>>, open |-> <<>>]
    ELSE scanPart(scanParts(ps, n - 1), ps[n], n - 1)

\* variant: boundaries that are still open are left out
openBoundariesDropped(open, lastIndex) == <<>>

\* lines 234-242: the boundaries still open end at the last known part
openBoundaries(open, lastIndex) ==
    [i \in DOMAIN open |->
        [boundaryId |-> open[i].boundaryId,
         startIndex |-> open[i].startIndex,
         endIndex |-> lastIndex,
         task |-> open[i].task,
         toolkits |-> open[i].toolkits,
         result |-> None]]

\* lines 152-155: the items of input.tool trimmed, the blank ones left out
trimmedItems(items) ==
    LET trimmed == [i \in DOMAIN items |-> Trim(items[i])]
        NotBlank(item) == Len(item) > 0
    IN  SelectSeq(trimmed, NotBlank)

\* variant: task and toolkits are taken as they stand in the input
extractCreateAgentMetadataRaw(part) ==
    [hasTask |-> Len(part.input.task) > 0,
     task |-> part.input.task,
     toolkits |-> IF part.input.toolIsArray THEN part.input.tool
                  ELSE <<part.input.tool>>]

\* lines 130-160; toolIsArray stands for Array.isArray(input.tool), a tool
\* that is no array is a string
extractCreateAgentMetadata(part) ==
    [hasTask |-> Len(Trim(part.input.task)) > 0,
     task |-> Trim(part.input.task),
     toolkits |-> IF part.input.toolIsArray
                  THEN trimmedItems(part.input.tool)
                  ELSE IF Len(Trim(part.input.tool)) > 0
                  THEN <<Trim(part.input.tool)>> ELSE <<>>]

\* lines 244-261: one fallback boundary per create_agent tool part
RECURSIVE fallbackBoundaries(_, _)
fallbackBoundaries(ps, n) ==
    IF n = 0 THEN <<>>
    ELSE LET rest == fallbackBoundaries(ps, n - 1)
             part == ps[n]
             meta == extractCreateAgentMetadata(part)
         IN  IF isCreateAgentToolPart(part)
             THEN Append(rest,
                         [boundaryId |-> "fallback-" \o ToString(n - 1),
                          startIndex |-> n - 1,
                          endIndex |-> Len(ps) - 1,
                          task |-> IF meta.hasTask THEN meta.task ELSE <<>>,
                          toolkits |-> meta.toolkits,
                          result |-> None])
             ELSE rest

\* Array.prototype.sort((a, b) => a.startIndex - b.startIndex), stable
RECURSIVE InsertByStart(_, _)
InsertByStart(sorted, x) ==
    IF sorted = <<>> THEN <<x>>
    ELSE IF sorted[Len(sorted)].startIndex <= x.startIndex
    THEN Append(sorted, x)
    ELSE Append(InsertByStart(SubSeq(sorted, 1, Len(sorted) - 1), x),
                sorted[Len(sorted)])

RECURSIVE sortByStartIndex(_)
sortByStartIndex(xs) ==
    IF xs = <<>> THEN <<>>
    ELSE InsertByStart(sortByStartIndex(SubSeq(xs, 1, Len(xs) - 1)),
                       xs[Len(xs)])

findCreateAgentBoundaries(ps) ==
    IF Len(ps) = 0 THEN <<>>
    ELSE LET st == scanParts(ps, Len(ps))
             boundaries == st.boundaries
                           \o openBoundaries(st.open, Len(ps) - 1)
         IN  IF Len(boundaries) = 0 THEN fallbackBoundaries(ps, Len(ps))
             ELSE sortByStartIndex(boundaries)

\* ----------------------------------------- segmentPartsByAgentBoundaries
\* Array.prototype.slice(from, to)
Slice(ps, from, to) == SubSeq(ps, from + 1, Min(to, Len(ps)))

\* variant: the cursor is set behind the boundary even when it was past it
nextCursorBack(cursor, boundary) == boundary.endIndex + 1

\* line 1019
nextCursor(cursor, boundary) == Max(cursor, boundary.endIndex + 1)

\* lines 990-1020: one turn of agentBoundaries.forEach
segmentBoundary(st, ps, boundary, boundaryIndex) ==
    LET cursor == st.cursor
        segmentStart == Max(boundary.startIndex, cursor)
        segmentEnd == Max(boundary.endIndex, segmentStart - 1)
        normalParts == Slice(ps, cursor, segmentStart)
        agentParts == Slice(ps, segmentStart, segmentEnd + 1)
        normal == IF segmentStart > cursor /\ Len(normalParts) > 0
                  THEN << [type |-> "normal", parts |-> normalParts,
                           key |-> <<"normal", cursor, boundaryIndex>>,
                           startIndex |-> cursor] >>
                  ELSE <<>>
        agent == IF segmentEnd >= segmentStart /\ Len(agentParts) > 0
                 THEN << [type |-> "agent", parts |-> agentParts,
                          key |-> <<"agent", boundary.boundaryId>>,
                          startIndex |-> segmentStart,
                          boundary |-> boundary] >>
                 ELSE <<>>
    IN  [segments |-> st.segments \o normal \o agent,
         cursor |-> nextCursor(cursor, boundary)]

RECURSIVE segmentBoundaries(_, _, _)
segmentBoundaries(ps, boundaries, n) ==
    IF n = 0 THEN [segments |-> <<>>, cursor |-> 0]
    ELSE segmentBoundary(segmentBoundaries(ps, boundaries, n - 1), ps,
                         boundaries[n], n - 1)

segmentPartsByAgentBoundaries(ps) ==
    IF Len(ps) = 0 THEN <<>>
    ELSE LET agentBoundaries == findCreateAgentBoundaries(ps)
         IN  IF Len(agentBoundaries) = 0
             THEN << [type |-> "normal", parts |-> ps,
                      key |-> <<"normal", 0>>, startIndex |-> 0] >>
             ELSE LET st == segmentBoundaries(ps, agentBoundaries,
                                              Len(agentBoundaries))
                  IN  IF st.cursor < Len(ps)
                      THEN Append(st.segments,
                                  [type |-> "normal",
                                   parts |-> Slice(ps, st.cursor, Len(ps)),
                                   key |-> <<"normal", st.cursor, "final">>,
                                   startIndex |-> st.cursor])
                      ELSE st.segments

\* lines 1034-1038
agentSegmentHasEnd(segment) ==
    \E i \in DOMAIN segment.parts :
        /\ isAgentBoundaryPart(segment.parts[i])
        /\ segment.parts[i].data.type = "end"

\* ------------------------------- SpecSegments: the parts of one message
\* The parts a message may hold: the boundary markers of two runs as execute
\* writes them, a second start marker under the boundaryId of the first run,
\* an end marker of another agent kind, text of either run or of the
\* parent, and two create_agent tool invocations of the parent.
StartPart(b) ==
    StartMarker(b, [task |-> <<"t">>, context |-> None], << <<"G">> >>)

\* a start marker that repeats the boundaryId of B1 with another task and
\* other toolkits
RestartPart ==
    StartMarker("B1", [task |-> <<"u">>, context |-> None], << <<"N">> >>)

EndPart(b) ==
    EndMarker(b, analyzeSubAgentExecution(<<>>, "stop", <<>>, Null), ZeroUsage)

ForeignEndPart ==
    [ type |-> "data-agent-boundary", id |-> <<"B1", "end">>,
      data |-> [type |-> "end", agentId |-> "other_agent",
                boundaryId |-> "B1"] ]

TextPart(owner) == [type |-> "text", run |-> owner]

CreateAgentToolPart ==
    [ type |-> "tool-create_agent", run |-> "parent",
      input |-> [task |-> <<" ", "t">>, tool |-> <<"g", " ">>,
                 toolIsArray |-> FALSE] ]

\* a second invocation: a blank task and a list of toolkits
SecondToolPart ==
    [ type |-> "tool-create_agent", run |-> "parent",
      input |-> [task |-> <<" ">>,
                 tool |-> << <<" ", "n">>, <<" ">>, <<"m">> >>,
                 toolIsArray |-> TRUE] ]

PartAlphabet ==
    {StartPart(b) : b \in BoundaryIds}
    \cup {EndPart(b) : b \in BoundaryIds}
    \cup {TextPart(o) : o \in BoundaryIds \cup {"parent"}}
    \cup {ForeignEndPart, CreateAgentToolPart, RestartPart, SecondToolPart}

InitSegments ==
    /\ parts = <<>>
    /\ UiIdle
    /\ ExecIdle
    /\ AnaIdle
    /\ ClientIdle

\* the next part of the streamed message arrives
AppendPart ==
    /\ Len(parts) < MaxParts
    /\ \E part \in PartAlphabet : parts' = Append(parts, part)
    /\ UNCHANGED <<execVars, anaVars, clientVars, uiVars>>

NextSegments == AppendPart

SpecSegments == InitSegments /\ [][NextSegments]_vars

\* the segments rendered for the parts known so far (useMemo, line 1056)
segments == segmentPartsByAgentBoundaries(parts)

agentSegments(segs) ==
    LET IsAgent(seg) == seg.type = "agent" IN SelectSeq(segs, IsAgent)

\* the run an event was emitted for
Owner(part) ==
    IF IsBoundaryMarker(part) THEN part.data.boundaryId ELSE part.run

\* C4: reconstructing what the runs have written so far, every run that has
\* written its boundary-start gets an agent segment of its own, the agent
\* segments come in the order of the starts, and no agent segment holds an
\* event that belongs to the other run.
C4_SegmentsHoldOwnEvents ==
    LET segs == agentSegments(segmentPartsByAgentBoundaries(writer))
    IN  /\ \A b \in BoundaryIds :
             (\E i \in DOMAIN writer : IsStartOf(writer[i], b)) =>
                 \E n \in DOMAIN segs : segs[n].boundary.boundaryId = b
        /\ \A n, m \in DOMAIN segs :
             n < m => segs[n].boundary.startIndex < segs[m].boundary.startIndex
        /\ \A n \in DOMAIN segs :
             \A k \in DOMAIN segs[n].parts :
                 Owner(segs[n].parts[k]) = segs[n].boundary.boundaryId

\* the zero-based positions at which a segment of segs ends
SegmentEnds(segs) ==
    {segs[i].startIndex + Len(segs[i].parts) : i \in DOMAIN segs}

SameSegment(a, b) ==
    /\ a.type = b.type
    /\ a.parts = b.parts
    /\ a.type = "agent" => a.boundary = b.boundary

\* C5: for every prefix of the part list that ends where a segment ends,
\* the segments of the prefix are a prefix of the segments of the list, with
\* the same type, parts and boundary.
C5_PrefixConsistent ==
    \A k \in 1..Len(parts) :
        k \in SegmentEnds(segments) =>
            LET before == segmentPartsByAgentBoundaries(SubSeq(parts, 1, k))
            IN  /\ Len(before) <= Len(segments)
                /\ \A i \in DOMAIN before :
                     SameSegment(before[i], segments[i])

\* the zero-based positions of the boundary markers in the part list
MarkerPositions ==
    {i \in 0..(Len(parts) - 1) : parts[i + 1].type = "data-agent-boundary"}

\* C6: a part list whose only boundary marker is the boundary-start of B
\* yields exactly one agent segment; it is B's, runs from the start marker
\* to the last known part and is not reported as ended.
C6_OpenBoundaryIsOneOpenSegment ==
    \A b \in BoundaryIds :
        \A s \in MarkerPositions :
            (MarkerPositions = {s} /\ IsStartOf(parts[s + 1], b)) =>
                LET agents == agentSegments(segments)
                IN  /\ Len(agents) = 1
                    /\ agents[1].boundary.boundaryId = b
                    /\ agents[1].startIndex = s
                    /\ agents[1].parts = SubSeq(parts, s + 1, Len(parts))
                    /\ ~agentSegmentHasEnd(agents[1])
                    /\ Len(segments) = (IF s = 0 THEN 1 ELSE 2)

\* C6 witness: text, the start of B1, then a tool part and text of the run
C6_Witness ==
    /\ Len(parts) = 4
    /\ parts[1] = TextPart("parent")
    /\ parts[2] = StartPart("B1")
    /\ parts[3] = CreateAgentToolPart
    /\ parts[4] = TextPart("B1")
    /\ Len(segments) = 2

\* C30: of two boundary-starts that share a boundaryId the second is
\* ignored: the boundaries reconstructed for the id number at most one, as
\* do its agent segments, and the start index, the task and the toolkits
\* recorded are those of the first start marker of the id.
C30_FirstStartWins ==
    LET boundaries == findCreateAgentBoundaries(parts)
        agents == agentSegments(segments)
    IN  \A b \in BoundaryIds :
            \A f \in DOMAIN parts :
                ( /\ IsStartOf(parts[f], b)
                  /\ \A i \in 1..(f - 1) : ~IsStartOf(parts[i], b) ) =>
                    /\ \A n, m \in DOMAIN boundaries :
                          ( /\ boundaries[n].boundaryId = b
                            /\ boundaries[m].boundaryId = b ) => n = m
                    /\ \A n, m \in DOMAIN agents :
                          ( /\ agents[n].boundary.boundaryId = b
                            /\ agents[m].boundary.boundaryId = b ) => n = m
                    /\ \A n \in DOMAIN boundaries :
                          boundaries[n].boundaryId = b =>
                              /\ boundaries[n].startIndex = f - 1
                              /\ boundaries[n].task = parts[f].data.task
                              /\ boundaries[n].toolkits =
                                    parts[f].data.toolkits

\* an end marker of create_agent for boundaryId b
IsCreateAgentEnd(part, b) ==
    IsEndOf(part, b) /\ part.data.agentId = "create_agent"

IsCreateAgentStart(part, b) ==
    IsStartOf(part, b) /\ part.data.agentId = "create_agent"

\* the end marker at position i (one-based) has no start marker of its
\* boundaryId before it that is still open
DanglingEndAt(ps, i) ==
    \E b \in BoundaryIds :
        /\ IsCreateAgentEnd(ps[i], b)
        /\ ~\E s \in 1..(i - 1) :
              /\ IsCreateAgentStart(ps[s], b)
              /\ \A e \in (s + 1)..(i - 1) : ~IsCreateAgentEnd(ps[e], b)

\* the list with the part at position i replaced
ReplaceAt(ps, i, part) == [ps EXCEPT ![i] = part]

\* C31: a boundary-end without an earlier still-open boundary-start of its
\* boundaryId is a no-op for boundary detection: the boundaries found are
\* those found when a plain text part stands in its place (none created,
\* none closed, start index, end index, task and toolkits of every boundary
\* the same), the agent segments carry the same boundaries, and a
\* boundaryId that has only end markers gets no boundary.
C31_DanglingEndIsNoOp ==
    LET boundaries == findCreateAgentBoundaries(parts)
        agents == agentSegments(segmentPartsByAgentBoundaries(parts))
    IN  /\ \A i \in DOMAIN parts :
             DanglingEndAt(parts, i) =>
                 LET without == ReplaceAt(parts, i, TextPart("parent"))
                     others == agentSegments(
                                   segmentPartsByAgentBoundaries(without))
                 IN  /\ boundaries = findCreateAgentBoundaries(without)
                     /\ Len(agents) = Len(others)
                     /\ \A n \in DOMAIN agents :
                          /\ agents[n].boundary = others[n].boundary
                          /\ agents[n].startIndex = others[n].startIndex
                          /\ Len(agents[n].parts) = Len(others[n].parts)
        /\ \A b \in BoundaryIds :
             (\A i \in DOMAIN parts : ~IsCreateAgentStart(parts[i], b)) =>
                 \A n \in DOMAIN boundaries : boundaries[n].boundaryId # b

\* C31 witness: B1 is open when an end marker of B2, never started, arrives
C31_Witness ==
    /\ Len(parts) = 3
    /\ parts[1] = StartPart("B1")
    /\ parts[2] = EndPart("B2")
    /\ parts[3] = TextPart("B1")
    /\ DanglingEndAt(parts, 2)
    /\ Len(findCreateAgentBoundaries(parts)) = 1

\* the one-based positions of the create_agent tool invocations
ToolPositions == {i \in DOMAIN parts : isCreateAgentToolPart(parts[i])}

FirstToolPosition ==
    CHOOSE f \in ToolPositions : \A g \in ToolPositions : f <= g

\* the agent segments come from the fallback of lines 244-261
FallbackUsed ==
    \E n \in DOMAIN segments :
        /\ segments[n].type = "agent"
        /\ segments[n].boundary.boundaryId \notin BoundaryIds

\* task and toolkits the first invocation names, trimmed
FirstToolTask == Trim(parts[FirstToolPosition].input.task)
FirstToolToolkits ==
    IF parts[FirstToolPosition].input.toolIsArray
    THEN trimmedItems(parts[FirstToolPosition].input.tool)
    ELSE IF Trim(parts[FirstToolPosition].input.tool) = <<>> THEN <<>>
    ELSE <<Trim(parts[FirstToolPosition].input.tool)>>

\* a list with create_agent tool invocations is cut at the first of them:
\* one agent segment from it to the last known part, one normal segment
\* ahead of it if parts come before, task and toolkits of that invocation
FallbackSegmentIsMade ==
    LET agents == agentSegments(segments)
        f == FirstToolPosition
    IN  /\ Len(agents) = 1
        /\ agents[1].startIndex = f - 1
        /\ agents[1].parts = SubSeq(parts, f, Len(parts))
        /\ agents[1].boundary.endIndex = Len(parts) - 1
        /\ agents[1].boundary.result = None
        /\ agents[1].boundary.task = FirstToolTask
        /\ agents[1].boundary.toolkits = FirstToolToolkits
        /\ Len(segments) = (IF f = 1 THEN 1 ELSE 2)
        /\ f > 1 => /\ segments[1].type = "normal"
                    /\ segments[1].parts = SubSeq(parts, 1, f - 1)

\* C32 as stated: without boundary markers and with create_agent tool
\* invocations the fallback makes the one open-ended agent segment of the
\* first invocation, and with any boundary marker in the list the fallback
\* is not used.
C32_FallbackOnlyWithoutMarkers ==
    /\ (MarkerPositions = {} /\ ToolPositions # {}) =>
          /\ FallbackSegmentIsMade
          /\ ~agentSegmentHasEnd(agentSegments(segments)[1])
    /\ MarkerPositions # {} => ~FallbackUsed

\* a start marker of create_agent is in the list
HasCreateAgentStart ==
    \E i \in DOMAIN parts : \E b \in BoundaryIds :
        IsCreateAgentStart(parts[i], b)

\* C32: the fallback is used exactly when the list has create_agent tool
\* invocations and no boundary-start of create_agent (end markers alone and
\* markers of other agents detect no boundary and do not keep it off); it
\* makes one agent segment from the first invocation to the last known part,
\* after one normal segment if parts come before, with the trimmed task and
\* toolkits of that invocation; without any marker in the list the segment
\* is reported open.
C32_FallbackWithoutDetectedBoundary ==
    /\ FallbackUsed <=> (~HasCreateAgentStart /\ ToolPositions # {})
    /\ FallbackUsed => FallbackSegmentIsMade
    /\ (FallbackUsed /\ MarkerPositions = {}) =>
          ~agentSegmentHasEnd(agentSegments(segments)[1])

\* C32 witness: text, the second invocation, the first one: no marker, the
\* segment takes the toolkits " n", " ", "m" of the invocation at index 1
C32_Witness ==
    /\ Len(parts) = 3
    /\ parts[1] = TextPart("parent")
    /\ parts[2] = SecondToolPart
    /\ parts[3] = CreateAgentToolPart
    /\ FallbackUsed
    /\ agentSegments(segments)[1].boundary.toolkits = << <<"n">>, <<"m">> >>
    /\ agentSegments(segments)[1].boundary.task = <<>>

\* the parts of the segments, one after the other
RECURSIVE ConcatParts(_)
ConcatParts(segs) ==
    IF segs = <<>> THEN <<>>
    ELSE ConcatParts(SubSeq(segs, 1, Len(segs) - 1)) \o segs[Len(segs)].parts

\* C33: the segments partition the part list: their parts, concatenated in
\* order, are the list itself (each part in exactly one segment, in the
\* original order), every segment starts where the one before it stops, no
\* segment is empty and no two consecutive segments are both normal.
C33_SegmentsPartitionParts ==
    LET segs == segments
    IN  /\ ConcatParts(segs) = parts
        /\ \A n \in DOMAIN segs :
             /\ Len(segs[n].parts) > 0
             /\ segs[n].startIndex =
                   Len(ConcatParts(SubSeq(segs, 1, n - 1)))
        /\ \A n \in 1..(Len(segs) - 1) :
             ~(segs[n].type = "normal" /\ segs[n + 1].type = "normal")

\* C33 witness: B2 starts inside B1 and ends after it; the overlap is cut
\* at the end of B1
C33_Witness ==
    /\ Len(parts) = 4
    /\ parts[1] = StartPart("B1")
    /\ parts[2] = StartPart("B2")
    /\ parts[3] = EndPart("B1")
    /\ parts[4] = EndPart("B2")
    /\ Len(segments) = 2
    /\ Len(segments[1].parts) = 3
    /\ segments[2].boundary.boundaryId = "B2"

\* C34: an agent segment is reported as ended only if the boundary-end of
\* its own boundaryId is among the parts known; a boundary still open whose
\* span holds the boundary-end of another run is reported as open.
C34_EndedOnlyByOwnEnd ==
    LET agents == agentSegments(segments)
    IN  \A n \in DOMAIN agents :
            agentSegmentHasEnd(agents[n]) =>
                \E i \in DOMAIN parts :
                    /\ IsEndOf(parts[i], agents[n].boundary.boundaryId)
                    /\ parts[i].data.agentId = "create_agent"

\* ------------------------------- SpecClassify: detectProviderErrorInText
\* A text is modelled by the set of phrases it contains, the empty set being
\* the empty string.  Phrases are spelt as the text spells them; two of
\* them are in upper case.
Phrases ==
    { "exceeded your current quota", "quota exceeded", "insufficient quota",
      "rate limit reached", "too many requests", "rate_limit_exceeded",
      "invalid api key", "api key not valid", "unauthorized",
      "authentication failed", "insufficient credits",
      "credit balance is too low", "balance too low",
      "usage is blocked due to insufficient credits", "rate limit exceeded",
      "429", "resource_exhausted", "requests per minute", "rate limit",
      "401", "timeout", "throttled", "workspace level",
      "negative credit balance", "402", "quota exhausted", "usage limit",
      "RATE LIMIT", "Unauthorized", "hello" }

MaxPhrases == 2

RECURSIVE TextsUpTo(_)
TextsUpTo(n) ==
    IF n = 0 THEN {{}}
    ELSE LET shorter == TextsUpTo(n - 1)
         IN  shorter \cup {t \cup {a} : t \in shorter, a \in Phrases}

Providers ==
    { "openai", "anthropic", "google", "xai", "deepseek", "mistral",
      "openrouter", "meta", "qwen", "moonshot", "zhipuai", "fal",
      "custom", "" }

ErrorInputs ==
    { [text |-> t, provider |-> p] : t \in TextsUpTo(MaxPhrases),
                                     p \in Providers }

\* String.prototype.toLowerCase on a phrase
lowerPhrase(a) ==
    CASE a = "RATE LIMIT" -> "rate limit"
      [] a = "Unauthorized" -> "unauthorized"
      [] OTHER -> a

\* line 420
toLowerCaseText(text) == {lowerPhrase(a) : a \in text}

\* the phrases of the list that are part of a longer phrase of the list
PartsOf(a) ==
    CASE a = "rate limit reached" -> {a, "rate limit"}
      [] a = "rate limit exceeded" -> {a, "rate limit"}
      [] a = "usage is blocked due to insufficient credits" ->
            {a, "insufficient credits"}
      [] OTHER -> {a}

\* lowercaseText.includes(p1) || lowercaseText.includes(p2) || ...
includesAny(lowercaseText, patterns) ==
    \E a \in lowercaseText : PartsOf(a) \cap patterns # {}

\* a DetectedError as the detectors build it: type, provider, the text as
\* message and the one flag of its kind (the user-facing sentence is left
\* out); the flags not set are absent from the object
DetectedError(type, provider, text, flag) ==
    (flag :> TRUE) @@ [type |-> type, provider |-> provider, message |-> text]

Quota(provider, text) ==
    DetectedError("QUOTA_EXCEEDED", provider, text, "isQuotaExceeded")
RateLimit(provider, text) ==
    DetectedError("RATE_LIMIT", provider, text, "isRateLimit")
Auth(provider, text) ==
    DetectedError("AUTH_ERROR", provider, text, "isAuthError")
Balance(provider, text) ==
    DetectedError("INSUFFICIENT_BALANCE", provider, text,
                  "isInsufficientBalance")

\* the rate-limit patterns most detectors share
CommonRateLimit == {"rate limit", "too many requests", "429"}

detectOpenAIErrors(text, lowercaseText) ==
    IF includesAny(lowercaseText, {"exceeded your current quota",
                                   "quota exceeded", "insufficient quota"})
    THEN Quota("openai", text)
    ELSE IF includesAny(lowercaseText, {"rate limit reached",
                                        "too many requests",
                                        "rate_limit_exceeded"})
    THEN RateLimit("openai", text)
    ELSE IF includesAny(lowercaseText, {"invalid api key", "api key not valid",
                                        "unauthorized",
                                        "authentication failed"})
    THEN Auth("openai", text)
    ELSE Null

detectAnthropicErrors(text, lowercaseText) ==
    IF includesAny(lowercaseText,
                   {"insufficient credits", "credit balance is too low",
                    "balance too low",
                    "usage is blocked due to insufficient credits"})
    THEN Balance("anthropic", text)
    ELSE IF includesAny(lowercaseText, {"rate limit exceeded",
                                        "too many requests", "429"})
    THEN RateLimit("anthropic", text)
    ELSE IF includesAny(lowercaseText, {"invalid api key", "unauthorized",
                                        "authentication failed"})
    THEN Auth("anthropic", text)
    ELSE Null

detectGoogleErrors(text, lowercaseText) ==
    IF includesAny(lowercaseText, {"resource_exhausted", "quota exceeded",
                                   "requests per minute"})
    THEN Quota("google", text)
    ELSE IF includesAny(lowercaseText, CommonRateLimit)
    THEN RateLimit("google", text)
    ELSE IF includesAny(lowercaseText, {"invalid api key", "api key not valid",
                                        "unauthorized",
                                        "authentication failed"})
    THEN Auth("google", text)
    ELSE Null

detectXAIErrors(text, lowercaseText) ==
    IF includesAny(lowercaseText, CommonRateLimit)
    THEN RateLimit("xai", text)
    ELSE IF includesAny(lowercaseText, {"invalid api key", "unauthorized",
                                        "401"})
    THEN Auth("xai", text)
    ELSE Null

detectDeepSeekErrors(text, lowercaseText) ==
    IF includesAny(lowercaseText, {"timeout", "too many requests",
                                   "throttled", "429"})
    THEN RateLimit("deepseek", text)
    ELSE Null

detectMistralErrors(text, lowercaseText) ==
    IF includesAny(lowercaseText, {"rate limit exceeded", "too many requests",
                                   "workspace level", "429"})
    THEN RateLimit("mistral", text)
    ELSE Null

detectOpenRouterErrors(text, lowercaseText) ==
    IF includesAny(lowercaseText, {"negative credit balance", "402",
                                   "insufficient credits"})
    THEN Balance("openrouter", text)
    ELSE IF includesAny(lowercaseText, CommonRateLimit)
    THEN RateLimit("openrouter", text)
    ELSE Null

\* detectMetaErrors, detectQwenErrors, detectMoonshotErrors,
\* detectZhipuAIErrors and detectFalErrors differ in the provider only
detectRateLimitOnly(provider, text, lowercaseText) ==
    IF includesAny(lowercaseText, CommonRateLimit)
    THEN RateLimit(provider, text)
    ELSE Null

detectGenericErrors(text, lowercaseText, provider) ==
    IF includesAny(lowercaseText, CommonRateLimit)
    THEN RateLimit(provider, text)
    ELSE IF includesAny(lowercaseText, {"quota exceeded", "quota exhausted",
                                        "usage limit"})
    THEN Quota(provider, text)
    ELSE IF includesAny(lowercaseText, {"unauthorized", "invalid api key",
                                        "api key not valid",
                                        "authentication failed", "401"})
    THEN Auth(provider, text)
    ELSE Null

detectProviderErrorInText(text, provider) ==
    IF text = {} \/ provider = "" THEN Null
    ELSE LET lowercaseText == toLowerCaseText(text)
             specific ==
                 CASE provider = "openai" ->
                          detectOpenAIErrors(text, lowercaseText)
                   [] provider = "anthropic" ->
                          detectAnthropicErrors(text, lowercaseText)
                   [] provider = "google" ->
                          detectGoogleErrors(text, lowercaseText)
                   [] provider = "xai" ->
                          detectXAIErrors(text, lowercaseText)
                   [] provider = "deepseek" ->
                          detectDeepSeekErrors(text, lowercaseText)
                   [] provider = "mistral" ->
                          detectMistralErrors(text, lowercaseText)
                   [] provider = "openrouter" ->
                          detectOpenRouterErrors(text, lowercaseText)
                   [] provider \in {"meta", "qwen", "moonshot", "zhipuai",
                                    "fal"} ->
                          detectRateLimitOnly(provider, text, lowercaseText)
                   [] OTHER -> Null
         IN  IF specific # Null THEN specific
             ELSE detectGenericErrors(text, lowercaseText, provider)

\* Boolean(detectedError.flag): an absent flag is undefined, hence false
Flag(detected, flag) == flag \in DOMAIN detected /\ detected[flag]

\* variant: a rate limit asks for the fallback as well
shouldTriggerFallbackOnAny(detected) ==
    \/ Flag(detected, "isAuthError")
    \/ Flag(detected, "isInsufficientBalance")
    \/ Flag(detected, "isQuotaExceeded")
    \/ Flag(detected, "isRateLimit")

shouldTriggerFallback(detected) ==
    \/ Flag(detected, "isAuthError")
    \/ Flag(detected, "isInsufficientBalance")
    \/ Flag(detected, "isQuotaExceeded")

InitClassify ==
    /\ errorInput \in ErrorInputs
    /\ detectedError = Null
    /\ agentSteps = <<>>
    /\ resultInput = Null
    /\ modelOutput = Null
    /\ ExecIdle
    /\ AnaIdle
    /\ SegIdle

\* the classifier is applied to a piece of streamed text; its verdict and
\* the fallback signal drawn from it are kept
Classify ==
    /\ detectedError = Null
    /\ LET detected == detectProviderErrorInText(errorInput.text,
                                                 errorInput.provider)
       IN  detectedError' =
               [ error |-> detected,
                 fallback |-> IF detected = Null THEN FALSE
                              ELSE shouldTriggerFallback(detected) ]
    /\ UNCHANGED <<errorInput, agentSteps, resultInput, modelOutput, execVars,
                   anaVars, segVars>>

NextClassify == Classify

SpecClassify == InitClassify /\ [][NextClassify]_vars

Classified == detectedError # Null /\ detectedError.error # Null

\* C23: for every error the classifier returns, the fallback signal is set
\* exactly when the error is an authentication error, an insufficient
\* balance or an exceeded quota; it is not set for a rate limit.
C23_FallbackExactlyForCredentialErrors ==
    Classified =>
        /\ detectedError.fallback <=>
              detectedError.error.type \in
                  {"AUTH_ERROR", "INSUFFICIENT_BALANCE", "QUOTA_EXCEEDED"}
        /\ detectedError.error.type = "RATE_LIMIT" => ~detectedError.fallback
        /\ detectedError.error.type \in
              {"AUTH_ERROR", "INSUFFICIENT_BALANCE", "QUOTA_EXCEEDED",
               "RATE_LIMIT"}

\* C23 witness: a text that speaks of a rate limit and of an invalid key is
\* classified as a rate limit, for which no fallback is signalled
C23_Witness ==
    /\ Classified
    /\ errorInput.text = {"RATE LIMIT", "invalid api key"}
    /\ errorInput.provider = "custom"
    /\ detectedError.error.type = "RATE_LIMIT"
    /\ ~detectedError.fallback


\* ------------------------------------- SpecModelOutput: toModelOutput
\* JSON values, each with the tag of its type
JUndefined == [t |-> "undefined"]
JNull == [t |-> "null"]
JBool(b) == [t |-> "bool", b |-> b]
JNum(n) == [t |-> "num", n |-> n]
JStr(s) == [t |-> "str", s |-> s]
JArr(xs) == [t |-> "arr", xs |-> xs]
JObj(fields) == [t |-> "obj", fields |-> fields]

\* a string of the model's one-character sequences as one string
RECURSIVE Flatten(_)
Flatten(chars) ==
    IF chars = <<>> THEN "" ELSE Head(chars) \o Flatten(Tail(chars))

\* the value JSON.parse reads back from JSON.stringify(analysis): the
\* errorMessage of an analysis without error is undefined and left out
JsonOf(a) ==
    LET always ==
            [ success |-> JBool(a.success),
              toolCallCount |-> JNum(a.toolCallCount),
              toolNames |-> JArr([i \in DOMAIN a.toolNames |->
                                     JStr(a.toolNames[i])]),
              finishReason |-> JStr(a.finishReason),
              issues |-> JArr([i \in DOMAIN a.issues |-> JStr(a.issues[i])]),
              summary |-> JStr(Flatten(a.summary)) ]
    IN  JObj(IF a.errorMessage = None THEN always
             ELSE always @@ [errorMessage |-> JStr(a.errorMessage)])

\* JSON text of a list of strings
RECURSIVE QuotedList(_)
QuotedList(xs) ==
    IF xs = <<>> THEN ""
    ELSE "\"" \o xs[1] \o "\"" \o (IF Len(xs) = 1 THEN ""
                                   ELSE "," \o QuotedList(Tail(xs)))

\* the text of JSON.stringify(analysis), line 388
StringifyText(a) ==
    "{\"success\":" \o (IF a.success THEN "true" ELSE "false")
    \o ",\"toolCallCount\":" \o ToString(a.toolCallCount)
    \o ",\"toolNames\":[" \o QuotedList(a.toolNames) \o "]"
    \o ",\"finishReason\":\"" \o a.finishReason \o "\""
    \o ",\"issues\":[" \o QuotedList(a.issues) \o "]"
    \o ",\"summary\":\"" \o Flatten(a.summary) \o "\""
    \o (IF a.errorMessage = None THEN ""
        ELSE ",\"errorMessage\":\"" \o a.errorMessage \o "\"")
    \o "}"

\* A result string is its text together with the value it denotes when it
\* is JSON.  form and of say how the string was made: "analysis" the string
\* execute returned for the analysis `of`, "plain" no JSON, "unreadable"
\* and "partial" JSON that is no complete Analysis.
Stringify(a) ==
    [ raw |-> StringifyText(a), isJson |-> TRUE, value |-> JsonOf(a),
      form |-> "analysis", of |-> a ]

PlainText(raw) ==
    [ raw |-> raw, isJson |-> FALSE, form |-> "plain", of |-> Null ]

OtherJson(raw, value, form) ==
    [ raw |-> raw, isJson |-> TRUE, value |-> value, form |-> form,
      of |-> Null ]

\* result.slice(0, 200), line 207
RawShown == 200
\* analysis.summary.slice(0, 150), line 201
ResultShown == 150

RECURSIVE RepText(_, _)
RepText(c, n) ==
    IF n = 0 THEN ""
    ELSE IF n % 2 = 0 THEN LET half == RepText(c, n \div 2) IN half \o half
    ELSE c \o RepText(c, n - 1)

PlainResults ==
    { PlainText(""), PlainText("Task done."),
      PlainText(RepText("a", RawShown)), PlainText(RepText("a", RawShown + 1)) }

\* JSON from which the summary cannot be made
UnreadableResults ==
    { OtherJson("null", JNull, "unreadable"),
      OtherJson("5", JNum(5), "unreadable"),
      OtherJson("\"abc\"", JStr("abc"), "unreadable"),
      OtherJson("[]", JArr(<<>>), "unreadable"),
      OtherJson("{}", JObj([x \in {} |-> JNull]), "unreadable"),
      OtherJson("{\"success\":false}",
                JObj([success |-> JBool(FALSE)]), "unreadable"),
      OtherJson("{\"success\":true}",
                JObj([success |-> JBool(TRUE)]), "unreadable"),
      OtherJson("{\"success\":false,\"issues\":\"none\",\"toolNames\":[]}",
                JObj([success |-> JBool(FALSE), issues |-> JStr("none"),
                      toolNames |-> JArr(<<>>)]), "unreadable"),
      OtherJson("{\"success\":true,\"toolNames\":[],\"summary\":5}",
                JObj([success |-> JBool(TRUE), toolNames |-> JArr(<<>>),
                      summary |-> JNum(5)]), "unreadable") }

\* JSON objects that lack fields of an Analysis, or hold a value of another
\* type, but have what the summary reads
PartialResults ==
    { OtherJson("{\"success\":false,\"issues\":[\"x\"],\"toolNames\":[]}",
                JObj([success |-> JBool(FALSE),
                      issues |-> JArr(<<JStr("x")>>),
                      toolNames |-> JArr(<<>>)]), "partial"),
      OtherJson("{\"issues\":[],\"toolNames\":[\"T1\"]}",
                JObj([issues |-> JArr(<<>>),
                      toolNames |-> JArr(<<JStr("T1")>>)]), "partial"),
      OtherJson("{\"success\":true,\"toolNames\":[\"T1\"],\"summary\":\"ok\"}",
                JObj([success |-> JBool(TRUE),
                      toolNames |-> JArr(<<JStr("T1")>>),
                      summary |-> JStr("ok")]), "partial"),
      OtherJson("{\"success\":\"no\",\"toolNames\":[],\"summary\":[]}",
                JObj([success |-> JStr("no"), toolNames |-> JArr(<<>>),
                      summary |-> JArr(<<>>)]), "partial") }

ResultInputs ==
    { Stringify(analyzeRun(in.toolCalls, in.finishReason, in.rawText,
                           IF in.raw.thrown THEN onError(in.raw) ELSE Null)) :
        in \in AnaInputs }
    \cup PlainResults \cup UnreadableResults \cup PartialResults

\* analysis.field: undefined unless the value is an object with the field
Get(value, field) ==
    IF value.t = "obj" /\ field \in DOMAIN value.fields
    THEN value.fields[field]
    ELSE JUndefined

\* !value is false
Truthy(value) ==
    CASE value.t = "bool" -> value.b
      [] value.t = "num" -> value.n # 0
      [] value.t = "str" -> value.s # ""
      [] value.t \in {"arr", "obj"} -> TRUE
      [] OTHER -> FALSE

RECURSIVE Text(_)
RECURSIVE joinText(_, _)
\* Array.prototype.join: null and undefined elements give the empty string
joinText(xs, separator) ==
    IF xs = <<>> THEN ""
    ELSE (IF xs[1].t \in {"null", "undefined"} THEN "" ELSE Text(xs[1]))
         \o (IF Len(xs) = 1 THEN ""
             ELSE separator \o joinText(Tail(xs), separator))

\* a value inside a template literal
Text(value) ==
    CASE value.t = "str" -> value.s
      [] value.t = "num" -> ToString(value.n)
      [] value.t = "bool" -> IF value.b THEN "true" ELSE "false"
      [] value.t = "arr" -> joinText(value.xs, ",")
      [] value.t = "obj" -> "[object Object]"
      [] OTHER -> value.t

Threw == [threw |-> TRUE]
Made(text) == [threw |-> FALSE, value |-> text]

\* variant: only the first issue is named
issueDetailsFirst(issues) ==
    IF issues.xs = <<>> THEN "" ELSE Text(issues.xs[1])

\* line 192
issueDetails(issues) == joinText(issues.xs, "; ")

\* analysis.toolNames.join(", ") || "none"
namesOrNone(toolNames) ==
    IF joinText(toolNames.xs, ", ") = "" THEN "none"
    ELSE joinText(toolNames.xs, ", ")

\* summary.slice(0, 150) and summary.length, of a string or of an array
sliceSummary(summary) ==
    IF summary.t = "str"
    THEN SubSeq(summary.s, 1, Min(Len(summary.s), ResultShown))
    ELSE joinText(SubSeq(summary.xs, 1, Min(Len(summary.xs), ResultShown)),
                  ",")

summaryLength(summary) ==
    IF summary.t = "str" THEN Len(summary.s) ELSE Len(summary.xs)

\* lines 189-202, the body of the try: the text made, unless a statement
\* threw (JSON.parse on text that is no JSON, a property read on null, a
\* call of join or slice on a value that has no such method)
trySummary(result) ==
    IF ~result.isJson THEN Threw
    ELSE LET parsed == result.value
             issues == Get(parsed, "issues")
             toolNames == Get(parsed, "toolNames")
             summary == Get(parsed, "summary")
         IN  IF parsed.t = "null" THEN Threw
             ELSE IF ~Truthy(Get(parsed, "success"))
             THEN IF issues.t # "arr" \/ toolNames.t # "arr" THEN Threw
                  ELSE Made("Sub-agent failed to complete task. Issues: "
                            \o issueDetails(issues)
                            \o ". Tools called: "
                            \o Text(Get(parsed, "toolCallCount"))
                            \o " (" \o namesOrNone(toolNames)
                            \o "). Finish reason: "
                            \o Text(Get(parsed, "finishReason"))
                            \o ". Consider different approach or retry.")
             ELSE IF toolNames.t # "arr" \/ summary.t \notin {"str", "arr"}
                  THEN Threw
                  ELSE Made("Sub-agent completed task successfully. Used tools: "
                            \o namesOrNone(toolNames) \o " ("
                            \o Text(Get(parsed, "toolCallCount"))
                            \o " calls). Result: "
                            \o sliceSummary(summary)
                            \o (IF summaryLength(summary) > ResultShown
                                THEN "..." ELSE ""))

\* lines 187-210
toModelOutput(result) ==
    LET tried == trySummary(result)
    IN  IF ~tried.threw THEN [type |-> "text", value |-> tried.value]
        ELSE [ type |-> "text",
               value |-> "Sub-agent execution completed but analysis failed. Raw result: "
                         \o SubSeq(result.raw, 1, Min(Len(result.raw), RawShown))
                         \o (IF Len(result.raw) > RawShown THEN "..." ELSE "") ]

InitModelOutput ==
    /\ resultInput \in ResultInputs
    /\ modelOutput = Null
    /\ agentSteps = <<>>
    /\ errorInput = Null
    /\ detectedError = Null
    /\ ExecIdle
    /\ AnaIdle
    /\ SegIdle

\* the framework hands the string to toModelOutput
ToModelOutput ==
    /\ modelOutput = Null
    /\ modelOutput' = toModelOutput(resultInput)
    /\ UNCHANGED <<resultInput, agentSteps, errorInput, detectedError,
                   execVars, anaVars, segVars>>

NextModelOutput == ToModelOutput

SpecModelOutput == InitModelOutput /\ [][NextModelOutput]_vars

\* what the returned text opens with
StartsWith(text, prefix) ==
    Len(text) >= Len(prefix) /\ SubSeq(text, 1, Len(prefix)) = prefix

HasText(text, piece) ==
    \E i \in 1..(Len(text) - Len(piece) + 1) :
        SubSeq(text, i, i + Len(piece) - 1) = piece

IsSuccessSummary(output) ==
    /\ output.type = "text"
    /\ StartsWith(output.value, "Sub-agent completed task successfully.")

IsFailureSummary(output) ==
    /\ output.type = "text"
    /\ StartsWith(output.value, "Sub-agent failed to complete task. Issues: ")

IsRawFallback(output) ==
    /\ output.type = "text"
    /\ StartsWith(output.value,
                  "Sub-agent execution completed but analysis failed. Raw result: ")

Converted == modelOutput # Null

\* what holds of every result string: a text value comes back; the string
\* execute returned for an analysis gives the success summary if the
\* analysis has success, the failure summary naming each of its issues
\* otherwise; plain text gives the raw-result fallback
HandlesBothForms ==
    /\ modelOutput.type = "text"
    /\ (resultInput.form = "analysis" /\ resultInput.of.success) =>
            IsSuccessSummary(modelOutput)
    /\ (resultInput.form = "analysis" /\ ~resultInput.of.success) =>
            /\ IsFailureSummary(modelOutput)
            /\ \A i \in DOMAIN resultInput.of.issues :
                  HasText(modelOutput.value, resultInput.of.issues[i])
    /\ resultInput.form = "plain" => IsRawFallback(modelOutput)

\* C24 as claimed: in addition, every JSON that is not a well-formed
\* Analysis gives the raw-result fallback.
C24_FallbackForAllOtherJson ==
    Converted =>
        /\ HandlesBothForms
        /\ resultInput.form \in {"unreadable", "partial"} =>
              IsRawFallback(modelOutput)

\* C24 amended: JSON that is not a well-formed Analysis gives the
\* raw-result fallback when the summary cannot be made from it (the value
\* is no object, or the lists or the summary text the summary reads are
\* missing or of another type); an object that has them is summarised by
\* its success value like an Analysis.
C24_FallbackForUnreadableJson ==
    Converted =>
        /\ HandlesBothForms
        /\ resultInput.form = "unreadable" => IsRawFallback(modelOutput)
        /\ resultInput.form = "partial" =>
              IF Truthy(Get(resultInput.value, "success"))
              THEN IsSuccessSummary(modelOutput)
              ELSE IsFailureSummary(modelOutput)

\* C24 witness: the string of an analysis with two issues was converted
C24_Witness ==
    /\ Converted
    /\ resultInput.form = "analysis"
    /\ ~resultInput.of.success
    /\ Len(resultInput.of.issues) >= 2
    /\ IsFailureSummary(modelOutput)


\* -------------------------- reconstructAgentContentParts (error-utils.ts)
\* Step events carry their optional fields as None when absent.
AgentStep(type, status, contentId) ==
    [ type |-> "data-agent-step",
      data |-> [type |-> type, status |-> status, contentId |-> contentId] ]

AgentToolStep(status, toolCallId, toolName, in, out) ==
    [ type |-> "data-agent-step",
      data |-> [type |-> "tool", status |-> status, toolCallId |-> toolCallId,
                toolName |-> toolName, input |-> in, output |-> out] ]

AgentStepUpdate(type, contentId, delta) ==
    [ type |-> "data-agent-step-update",
      data |-> [type |-> type, contentId |-> contentId, delta |-> delta] ]

\* lines 646-654
isAgentStepPart(step) == step.type = "data-agent-step"
isAgentStepUpdatePart(step) == step.type = "data-agent-step-update"

\* Record<string, ...>: a function on the keys set so far
EmptyRecord == [key \in {} |-> Null]
Has(record, key) == key \in DOMAIN record
Put(record, key, entry) ==
    [k \in DOMAIN record \cup {key} |-> IF k = key THEN entry ELSE record[k]]

\* the empty object {}
EmptyObject == "{}"

\* contentParts[index] = part, index counted from 0
SetPart(contentParts, index, part) ==
    [contentParts EXCEPT ![index + 1] = part]

\* lines 1182-1191
NoContent ==
    [ contentParts |-> <<>>, textAccumulator |-> EmptyRecord,
      reasoningAccumulator |-> EmptyRecord, toolParts |-> EmptyRecord ]

\* the text and the reasoning branches are the same code over
\* textAccumulator and reasoningAccumulator
Accumulator(st, kind) ==
    IF kind = "text" THEN st.textAccumulator ELSE st.reasoningAccumulator

WithAccumulator(st, kind, acc) ==
    IF kind = "text" THEN [st EXCEPT !.textAccumulator = acc]
    ELSE [st EXCEPT !.reasoningAccumulator = acc]

\* typeof accumulator.index === "number"
HasIndex(accumulator) == "index" \in DOMAIN accumulator

\* variant: a start never finds its block in place
hasPlaceholderNever(acc, contentId) == FALSE

\* existing && typeof existing.index === "number", lines 1201-1202
hasPlaceholder(acc, contentId) ==
    Has(acc, contentId) /\ HasIndex(acc[contentId])

\* lines 1200-1215 and 1240-1255: status "start"
openContent(st, kind, contentId) ==
    LET acc == Accumulator(st, kind)
    IN  IF hasPlaceholder(acc, contentId)
        THEN WithAccumulator(st, kind,
                             [acc EXCEPT ![contentId].isStreaming = TRUE])
        ELSE LET opened ==
                     [ text |-> IF Has(acc, contentId) THEN acc[contentId].text
                                ELSE <<>>,
                       isStreaming |-> TRUE,
                       index |-> Len(st.contentParts) ]
             IN  [ WithAccumulator(st, kind, Put(acc, contentId, opened))
                     EXCEPT !.contentParts =
                                Append(@, [type |-> kind, text |-> <<>>]) ]

\* variant: only the empty text counts as nothing to show
hasTextNonEmpty(text) == text # <<>>

\* accumulator.text.trim() is not the empty string
hasText(text) == Trim(text) # <<>>

\* lines 1216-1236 and 1256-1276: status "end"
closeContent(st, kind, contentId) ==
    LET acc == Accumulator(st, kind)
    IN  IF ~Has(acc, contentId) THEN st
        ELSE LET accumulator == acc[contentId]
                 closed ==
                     WithAccumulator(st, kind,
                         [acc EXCEPT ![contentId].isStreaming = FALSE])
             IN  IF HasIndex(accumulator)
                    /\ accumulator.index < Len(st.contentParts)
                 THEN [ closed EXCEPT !.contentParts =
                          SetPart(@, accumulator.index,
                                  IF hasText(accumulator.text)
                                  THEN [type |-> kind,
                                        text |-> accumulator.text]
                                  ELSE Null) ]
                 ELSE closed

\* variant: the part already in the list is left as it is
showDeltaLater(contentParts, index, part) == contentParts

\* lines 1373-1378: the part in the list follows the accumulator
showDelta(contentParts, index, part) == SetPart(contentParts, index, part)

\* lines 1365-1419: a delta for a text or a reasoning block
appendDelta(st, kind, contentId, delta) ==
    LET acc == Accumulator(st, kind)
    IN  IF Has(acc, contentId)
        THEN LET text == acc[contentId].text \o delta
                 grown == WithAccumulator(st, kind,
                              [acc EXCEPT ![contentId].text = text])
             IN  IF HasIndex(acc[contentId])
                    /\ acc[contentId].index < Len(st.contentParts)
                 THEN [ grown EXCEPT !.contentParts =
                          showDelta(@, acc[contentId].index,
                                    [type |-> kind, text |-> text]) ]
                 ELSE grown
        ELSE [ WithAccumulator(st, kind,
                   Put(acc, contentId,
                       [ text |-> delta, isStreaming |-> TRUE,
                         index |-> Len(st.contentParts) ]))
                 EXCEPT !.contentParts =
                            Append(@, [type |-> kind, text |-> delta]) ]

\* `tool-${toolName.toLowerCase().replace(/_/g, "-")}`
toolTypeOf(toolName) ==
    "tool-" \o (CASE toolName = "GMAIL_SEND" -> "gmail-send"
                  [] toolName = "Notion_Find" -> "notion-find"
                  [] OTHER -> toolName)

isToolPartOf(part, toolCallId) ==
    /\ part # Null
    /\ "toolCallId" \in DOMAIN part
    /\ SubSeq(part.type, 1, 5) = "tool-"
    /\ part.toolCallId = toolCallId

\* variant: the part of the tool call is never found in the list
findToolIndexNever(contentParts, toolCallId) == 0 - 1

\* contentParts.findIndex(...), lines 1324-1329: -1 if there is none
findToolIndex(contentParts, toolCallId) ==
    IF \E i \in DOMAIN contentParts : isToolPartOf(contentParts[i], toolCallId)
    THEN (CHOOSE i \in DOMAIN contentParts :
             /\ isToolPartOf(contentParts[i], toolCallId)
             /\ \A j \in 1..(i - 1) :
                   ~isToolPartOf(contentParts[j], toolCallId)) - 1
    ELSE 0 - 1

\* variant: an event without input gives a part without input
inputOrEmptyMissing(in) == in

\* stepData.input || {}
inputOrEmpty(in) == IF in # None THEN in ELSE EmptyObject

\* lines 1279-1356: a tool step
toolStep(st, data) ==
    IF data.toolCallId = None \/ data.toolName = None THEN st
    ELSE IF data.status = "input-available" /\ data.input # None
    THEN IF Has(st.toolParts, data.toolCallId) THEN st
         ELSE LET inputToolPart ==
                      [ type |-> toolTypeOf(data.toolName),
                        toolCallId |-> data.toolCallId,
                        state |-> "input-available",
                        input |-> data.input ]
              IN  [ st EXCEPT
                      !.toolParts = Put(@, data.toolCallId, inputToolPart),
                      !.contentParts = Append(@, inputToolPart) ]
    ELSE IF data.status = "output-available" /\ data.output # None
    THEN IF Has(st.toolParts, data.toolCallId)
         THEN LET earlier == st.toolParts[data.toolCallId].input
                  updatedToolPart ==
                      [ type |-> toolTypeOf(data.toolName),
                        toolCallId |-> data.toolCallId,
                        state |-> "output-available",
                        input |-> IF earlier # None THEN earlier
                                  ELSE inputOrEmpty(data.input),
                        output |-> data.output ]
                  existingIndex ==
                      findToolIndex(st.contentParts, data.toolCallId)
              IN  [ st EXCEPT
                      !.toolParts = Put(@, data.toolCallId, updatedToolPart),
                      !.contentParts =
                          IF existingIndex # 0 - 1
                          THEN SetPart(@, existingIndex, updatedToolPart)
                          ELSE Append(@, updatedToolPart) ]
         ELSE LET completeToolPart ==
                      [ type |-> toolTypeOf(data.toolName),
                        toolCallId |-> data.toolCallId,
                        state |-> "output-available",
                        input |-> inputOrEmpty(data.input),
                        output |-> data.output ]
              IN  [ st EXCEPT
                      !.toolParts = Put(@, data.toolCallId, completeToolPart),
                      !.contentParts = Append(@, completeToolPart) ]
    ELSE st

\* lines 1194-1421: one turn of the loop over the steps
processStep(st, step) ==
    IF isAgentStepPart(step)
    THEN LET stepData == step.data
         IN  IF stepData.type \in {"text", "reasoning"}
             THEN IF stepData.status = "start" /\ stepData.contentId # None
                  THEN openContent(st, stepData.type, stepData.contentId)
                  ELSE IF stepData.status = "end"
                          /\ stepData.contentId # None
                  THEN closeContent(st, stepData.type, stepData.contentId)
                  ELSE st
             ELSE IF stepData.type = "tool" THEN toolStep(st, stepData)
             ELSE st
    ELSE IF isAgentStepUpdatePart(step)
    THEN LET updateData == step.data
         IN  IF /\ updateData.type \in {"text", "reasoning"}
                /\ updateData.contentId # None
                /\ updateData.delta # <<>>
             THEN appendDelta(st, updateData.type, updateData.contentId,
                              updateData.delta)
             ELSE st
    ELSE st

RECURSIVE processSteps(_, _)
processSteps(stepList, n) ==
    IF n = 0 THEN NoContent
    ELSE processStep(processSteps(stepList, n - 1), stepList[n])

\* lines 1424-1434: accumulators still streaming that have text and no
\* place in the list, in the order of Object.values
RECURSIVE stillStreaming(_, _, _)
stillStreaming(acc, keys, kind) ==
    IF keys = {} THEN <<>>
    ELSE LET key == CHOOSE k \in keys : TRUE
             rest == stillStreaming(acc, keys \ {key}, kind)
         IN  IF /\ acc[key].isStreaming
                /\ hasText(acc[key].text)
                /\ ~HasIndex(acc[key])
             THEN <<[type |-> kind, text |-> acc[key].text]>> \o rest
             ELSE rest

NotNull(part) == part # Null

\* lines 1424-1438: what is returned for the state the loop has reached
contentOf(st) ==
    SelectSeq(st.contentParts
                \o stillStreaming(st.textAccumulator,
                                  DOMAIN st.textAccumulator, "text")
                \o stillStreaming(st.reasoningAccumulator,
                                  DOMAIN st.reasoningAccumulator, "reasoning"),
              NotNull)

reconstructAgentContentParts(stepList) ==
    contentOf(processSteps(stepList, Len(stepList)))


\* ------------------------------ SpecContent: the steps of one agent group
\* The step events a group may receive: a text block c1 (start, end, a
\* letter, a blank), a second text block c2, a reasoning block under the
\* content id of the first text block, and the input and output events of
\* two tool calls, the output of k1 without input.
ContentIds == {"c1", "c2"}
ToolCallIds == {"k1", "k2"}
ContentKinds == {"text", "reasoning"}

ToolInput(k) == AgentToolStep("input-available", k, "GMAIL_SEND", "in", None)
ToolOutput(k) ==
    IF k = "k1"
    THEN AgentToolStep("output-available", k, "GMAIL_SEND", None, "out")
    ELSE AgentToolStep("output-available", k, "Notion_Find", "in2", "out2")

StepAlphabet ==
    { AgentStep("text", "start", "c1"), AgentStep("text", "end", "c1"),
      AgentStepUpdate("text", "c1", <<"a">>),
      AgentStepUpdate("text", "c1", <<" ">>),
      AgentStep("text", "start", "c2"),
      AgentStepUpdate("text", "c2", <<"b">>),
      AgentStep("reasoning", "start", "c1"),
      AgentStepUpdate("reasoning", "c1", <<"r">>),
      AgentStep("reasoning", "end", "c1"),
      ToolInput("k1"), ToolOutput("k1"), ToolOutput("k2") }

MaxSteps == 4

InitContent ==
    /\ agentSteps = <<>>
    /\ errorInput = Null
    /\ detectedError = Null
    /\ resultInput = Null
    /\ modelOutput = Null
    /\ ExecIdle
    /\ AnaIdle
    /\ SegIdle

\* the next step event of the group arrives
AppendStep ==
    /\ Len(agentSteps) < MaxSteps
    /\ \E step \in StepAlphabet : agentSteps' = Append(agentSteps, step)
    /\ UNCHANGED <<errorInput, detectedError, resultInput, modelOutput,
                   execVars, anaVars, segVars>>

NextContent == AppendStep

SpecContent == InitContent /\ [][NextContent]_vars

\* the blocks rendered for the steps known so far, and for the steps
\* before the latest
content == reconstructAgentContentParts(agentSteps)
contentBefore ==
    reconstructAgentContentParts(SubSeq(agentSteps, 1, Len(agentSteps) - 1))
latest == agentSteps[Len(agentSteps)]

RemoveAt(xs, i) == SubSeq(xs, 1, i - 1) \o SubSeq(xs, i + 1, Len(xs))

\* what an event is, read off its fields
StartsContent(step, kind, c) ==
    /\ isAgentStepPart(step) /\ step.data.type = kind
    /\ step.data.status = "start" /\ step.data.contentId = c
EndsContent(step, kind, c) ==
    /\ isAgentStepPart(step) /\ step.data.type = kind
    /\ step.data.status = "end" /\ step.data.contentId = c
FeedsContent(step, kind, c) ==
    /\ isAgentStepUpdatePart(step) /\ step.data.type = kind
    /\ step.data.contentId = c
IsToolStep(step, k) ==
    /\ isAgentStepPart(step) /\ step.data.type = "tool"
    /\ step.data.toolCallId = k
IsInputStep(step, k) ==
    IsToolStep(step, k) /\ step.data.status = "input-available"
IsOutputStep(step, k) ==
    IsToolStep(step, k) /\ step.data.status = "output-available"

\* the events before position n that open the block (kind, c)
Opened(kind, c, n) ==
    \E j \in 1..(n - 1) :
        \/ StartsContent(agentSteps[j], kind, c)
        \/ FeedsContent(agentSteps[j], kind, c)

\* the deltas of (kind, c) among the first n events, one after the other
RECURSIVE DeltasOf(_, _, _)
DeltasOf(kind, c, n) ==
    IF n = 0 THEN <<>>
    ELSE DeltasOf(kind, c, n - 1)
         \o (IF FeedsContent(agentSteps[n], kind, c)
             THEN agentSteps[n].data.delta ELSE <<>>)

IsBlockOfTool(part, k) == "toolCallId" \in DOMAIN part /\ part.toolCallId = k

OneBlockOfTool(blocks, k) ==
    \E i \in DOMAIN blocks :
        /\ IsBlockOfTool(blocks[i], k)
        /\ \A j \in DOMAIN blocks : j # i => ~IsBlockOfTool(blocks[j], k)

BlockOfTool(blocks, k) ==
    blocks[CHOOSE i \in DOMAIN blocks : IsBlockOfTool(blocks[i], k)]

FirstToolStep(k) ==
    CHOOSE i \in DOMAIN agentSteps :
        /\ IsToolStep(agentSteps[i], k)
        /\ \A j \in 1..(i - 1) : ~IsToolStep(agentSteps[j], k)

LastOutputStep(k) ==
    CHOOSE i \in DOMAIN agentSteps :
        /\ IsOutputStep(agentSteps[i], k)
        /\ \A j \in (i + 1)..Len(agentSteps) : ~IsOutputStep(agentSteps[j], k)

\* C22: when the first event of a tool call is its output-available, the
\* output holds exactly one block for the call, complete: state
\* output-available, the output of the latest output event, and as input
\* the input of that first event or the empty object if it carries none;
\* an input-available that comes later adds no block.
C22_OutputFirstGivesOneCompleteBlock ==
    LET shown == content
    IN
        \A k \in ToolCallIds :
            ( /\ \E i \in DOMAIN agentSteps : IsToolStep(agentSteps[i], k)
              /\ IsOutputStep(agentSteps[FirstToolStep(k)], k) ) =>
                /\ OneBlockOfTool(shown, k)
                /\ BlockOfTool(shown, k).state = "output-available"
                /\ BlockOfTool(shown, k).output =
                      agentSteps[LastOutputStep(k)].data.output
                /\ BlockOfTool(shown, k).input =
                      IF agentSteps[FirstToolStep(k)].data.input # None
                      THEN agentSteps[FirstToolStep(k)].data.input
                      ELSE EmptyObject

\* C22 witness: the output of k1, without input, came ahead of its input
C22_Witness ==
    \E i, j \in DOMAIN agentSteps :
        /\ i < j
        /\ IsOutputStep(agentSteps[i], "k1")
        /\ \A h \in 1..(i - 1) : ~IsToolStep(agentSteps[h], "k1")
        /\ agentSteps[i].data.input = None
        /\ IsInputStep(agentSteps[j], "k1")
        /\ Len(content) = 1

\* C26: the output never holds two blocks of one tool call; an
\* input-available for a call that has its block changes nothing, and an
\* output-available for it changes that block only, where it stands, to
\* state output-available with the input shown before and the output of
\* the event.
C26_OneBlockPerToolCall ==
    LET shown == content
        before == contentBefore
    IN
        \A k \in ToolCallIds :
            /\ \A i, j \in DOMAIN shown :
                  (IsBlockOfTool(shown[i], k) /\ IsBlockOfTool(shown[j], k))
                      => i = j
            /\ ( /\ agentSteps # <<>>
                 /\ IsToolStep(latest, k)
                 /\ \E p \in DOMAIN before :
                       IsBlockOfTool(before[p], k) ) =>
                    LET p == CHOOSE q \in DOMAIN before :
                                 IsBlockOfTool(before[q], k)
                    IN  IF IsInputStep(latest, k) THEN shown = before
                        ELSE shown =
                               [ before EXCEPT ![p] =
                                   [ type |-> toolTypeOf(latest.data.toolName),
                                     toolCallId |-> k,
                                     state |-> "output-available",
                                     input |-> before[p].input,
                                     output |-> latest.data.output ] ]

\* C26 witness: the block of k1 was made by its input, another block
\* followed, and then the output of k1 arrived
C26_Witness ==
    /\ Len(agentSteps) >= 3
    /\ IsInputStep(agentSteps[1], "k1")
    /\ ~IsToolStep(agentSteps[2], "k1")
    /\ IsOutputStep(latest, "k1")
    /\ Len(content) >= 2
    /\ content[1].state = "output-available"
    /\ content[1].input = "in"

\* C27: a start event for a block that has its accumulator changes
\* nothing: the output is the output of the same events without that
\* start, whatever came before and whatever follows.
C27_StartIsIdempotent ==
    LET shown == content
    IN
        \A i \in DOMAIN agentSteps :
            \A kind \in ContentKinds, c \in ContentIds :
                (StartsContent(agentSteps[i], kind, c) /\ Opened(kind, c, i)) =>
                    shown = reconstructAgentContentParts(RemoveAt(agentSteps, i))

\* C27 witness: text c1 was started, fed, started again and fed again
C27_Witness ==
    /\ Len(agentSteps) = 4
    /\ StartsContent(agentSteps[1], "text", "c1")
    /\ FeedsContent(agentSteps[2], "text", "c1")
    /\ StartsContent(agentSteps[3], "text", "c1")
    /\ FeedsContent(agentSteps[4], "text", "c1")
    /\ Len(content) = 1
    /\ Len(content[1].text) = 2

\* the blocks the events make, by the event that comes first for each
ContentKeys == {<<kind, c>> : kind \in ContentKinds, c \in ContentIds}

Started(key) ==
    \E j \in DOMAIN agentSteps : StartsContent(agentSteps[j], key[1], key[2])
Ended(key) ==
    \E j \in DOMAIN agentSteps : EndsContent(agentSteps[j], key[1], key[2])
InFlight(key) == Started(key) /\ ~Ended(key)

FirstOfContent(key) ==
    CHOOSE i \in DOMAIN agentSteps :
        /\ \/ StartsContent(agentSteps[i], key[1], key[2])
           \/ FeedsContent(agentSteps[i], key[1], key[2])
        /\ ~Opened(key[1], key[2], i)

PartialBlock(key) ==
    [type |-> key[1], text |-> DeltasOf(key[1], key[2], Len(agentSteps))]

\* C28: a text or reasoning block that was started and has not been ended
\* is in the output with the deltas received so far for it, joined in
\* their order; it stands where its first event puts it: after the blocks
\* in flight and the tool blocks whose first event came earlier, before
\* those whose first event came later.
C28_BlockInFlightIsShown ==
    LET shown == content
    IN
        \A x \in ContentKeys :
            InFlight(x) =>
                /\ \E p \in DOMAIN shown : shown[p] = PartialBlock(x)
                /\ \A y \in ContentKeys :
                      (InFlight(y) /\ FirstOfContent(x) < FirstOfContent(y)) =>
                          \E p, q \in DOMAIN shown :
                              /\ p < q
                              /\ shown[p] = PartialBlock(x)
                              /\ shown[q] = PartialBlock(y)
                /\ \A k \in ToolCallIds :
                      (\E i \in DOMAIN agentSteps : IsToolStep(agentSteps[i], k)) =>
                          \E p, q \in DOMAIN shown :
                              /\ shown[p] = PartialBlock(x)
                              /\ IsBlockOfTool(shown[q], k)
                              /\ (p < q) <=> (FirstOfContent(x) < FirstToolStep(k))

\* C28 witness: a delta of c1 came first, then a tool block, the start of
\* c1 and a second delta; the text block stands ahead of the tool block
C28_Witness ==
    /\ Len(agentSteps) = 4
    /\ FeedsContent(agentSteps[1], "text", "c1")
    /\ IsToolStep(agentSteps[2], "k2")
    /\ StartsContent(agentSteps[3], "text", "c1")
    /\ FeedsContent(agentSteps[4], "text", "c1")
    /\ Len(content) = 2
    /\ content[1] = PartialBlock(<<"text", "c1">>)
    /\ Len(content[1].text) = 2

\* the block (kind, c) was dropped by an earlier end and has had no delta
\* since
DroppedBefore(kind, c) ==
    \E e \in 1..(Len(agentSteps) - 1) :
        /\ EndsContent(agentSteps[e], kind, c)
        /\ Opened(kind, c, e)
        /\ Trim(DeltasOf(kind, c, e)) = <<>>
        /\ \A j \in (e + 1)..(Len(agentSteps) - 1) :
              ~FeedsContent(agentSteps[j], kind, c)

\* C29: the end event of a block takes the block out of the output if the
\* text received for it is empty or blank, the other blocks staying as
\* they are and in their order; otherwise the output is as before the
\* event, the block showing exactly the text received.
C29_EndDropsBlankBlock ==
    LET shown == content
        before == contentBefore
    IN
        \A kind \in ContentKinds, c \in ContentIds :
            ( /\ agentSteps # <<>>
              /\ EndsContent(latest, kind, c)
              /\ Opened(kind, c, Len(agentSteps)) ) =>
                LET text == DeltasOf(kind, c, Len(agentSteps))
                    block == [type |-> kind, text |-> text]
                IN  IF Trim(text) # <<>>
                    THEN /\ shown = before
                         /\ \E p \in DOMAIN shown : shown[p] = block
                    ELSE IF DroppedBefore(kind, c)
                    THEN shown = before
                    ELSE \E p \in DOMAIN before :
                            /\ before[p] = block
                            /\ shown = RemoveAt(before, p)

\* C29 witness: a blank text block between two other blocks was ended
C29_Witness ==
    /\ Len(agentSteps) = 4
    /\ IsToolStep(agentSteps[1], "k2")
    /\ agentSteps[2] = AgentStepUpdate("text", "c1", <<" ">>)
    /\ FeedsContent(agentSteps[3], "text", "c2")
    /\ EndsContent(latest, "text", "c1")
    /\ Len(contentBefore) = 3
    /\ Len(content) = 2
    /\ content[2].text = <<"b">>

\* ------------------------------------ groupAgentDataParts (error-utils.ts)
\* lines 632-662; the types that start with "data-agent-"
isAgentDataPart(part) == StartsWith(part.type, "data-agent-")
isAgentStartPart(part) == isAgentDataPart(part) /\ part.type = "data-agent-start"
isAgentEndPart(part) == isAgentDataPart(part) /\ part.type = "data-agent-end"
isAgentErrorPart(part) == isAgentDataPart(part) /\ part.type = "data-agent-error"

\* agentGroups, a Record<string, AgentGroup>, is kept as the sequence of its
\* keys in insertion order (the order of Object.keys for keys that are no
\* array indices), each with the place of its group among the group objects
\* made so far; an assignment to a key that exists keeps the key's place.
GroupHas(keys, agentId) == \E k \in DOMAIN keys : keys[k].agentId = agentId
GroupRef(keys, agentId) ==
    keys[CHOOSE k \in DOMAIN keys : keys[k].agentId = agentId].ref
GroupSet(keys, agentId, ref) ==
    IF GroupHas(keys, agentId)
    THEN [k \in DOMAIN keys |->
            IF keys[k].agentId = agentId
            THEN [agentId |-> agentId, ref |-> ref] ELSE keys[k]]
    ELSE Append(keys, [agentId |-> agentId, ref |-> ref])

\* lines 1468-1474: the candidate matches the step
candidateMatches(part, candidate) ==
    \/ StartsWith(part.id, candidate)
    \/ "stepId" \in DOMAIN part.data /\ StartsWith(part.data.stepId, candidate)

\* lines 1463-1477: the first key, in the order of Object.keys, that the id
\* or the stepId of the step starts with; None for null
resolveAgentIdForStep(keys, part) ==
    IF \E k \in DOMAIN keys : candidateMatches(part, keys[k].agentId)
    THEN keys[CHOOSE k \in DOMAIN keys :
                 /\ candidateMatches(part, keys[k].agentId)
                 /\ \A h \in 1..(k - 1) :
                      ~candidateMatches(part, keys[h].agentId)].agentId
    ELSE None

\* lines 1487-1529: one turn of parts.forEach; st.groups holds the group
\* objects, st.keys is agentGroups, st.ordered is orderedParts
groupPart(st, part, index) ==
    IF isAgentStartPart(part)
    THEN LET group == [agentId |-> part.data.agentId, startIndex |-> index,
                       start |-> part, steps |-> <<>>,
                       end |-> Null, error |-> Null]
             ref == Len(st.groups) + 1
         IN  [groups |-> Append(st.groups, group),
              keys |-> GroupSet(st.keys, part.data.agentId, ref),
              ordered |-> Append(st.ordered,
                                 [kind |-> "agent", index |-> index,
                                  ref |-> ref])]
    ELSE IF isAgentStepPart(part) \/ isAgentStepUpdatePart(part)
    THEN LET agentId == resolveAgentIdForStep(st.keys, part)
         IN  IF agentId # None
             THEN [st EXCEPT !.groups[GroupRef(st.keys, agentId)].steps =
                                 Append(@, part)]
             ELSE st
    ELSE IF isAgentEndPart(part)
    THEN IF GroupHas(st.keys, part.data.agentId)
         THEN [st EXCEPT !.groups[GroupRef(st.keys, part.data.agentId)].end =
                             part]
         ELSE st
    ELSE IF isAgentErrorPart(part)
    THEN IF GroupHas(st.keys, part.data.agentId)
         THEN [st EXCEPT
                 !.groups[GroupRef(st.keys, part.data.agentId)].error = part]
         ELSE st
    ELSE IF ~isAgentDataPart(part)
    THEN [st EXCEPT !.ordered =
             Append(@, [kind |-> "regular", index |-> index, part |-> part])]
    ELSE st

RECURSIVE groupParts(_, _)
groupParts(ps, n) ==
    IF n = 0 THEN [groups |-> <<>>, keys |-> <<>>, ordered |-> <<>>]
    ELSE groupPart(groupParts(ps, n - 1), ps[n], n - 1)

\* Array.prototype.sort((a, b) => a.index - b.index), stable
RECURSIVE InsertByIndex(_, _)
InsertByIndex(sorted, x) ==
    IF sorted = <<>> THEN <<x>>
    ELSE IF sorted[Len(sorted)].index <= x.index
    THEN Append(sorted, x)
    ELSE Append(InsertByIndex(SubSeq(sorted, 1, Len(sorted) - 1), x),
                sorted[Len(sorted)])

RECURSIVE sortByIndex(_)
sortByIndex(xs) ==
    IF xs = <<>> THEN <<>>
    ELSE InsertByIndex(sortByIndex(SubSeq(xs, 1, Len(xs) - 1)), xs[Len(xs)])

\* lines 1479-1532; an agent entry is shown with the group object it holds
groupAgentDataParts(ps) ==
    LET st == groupParts(ps, Len(ps))
        sorted == sortByIndex(st.ordered)
    IN  [n \in DOMAIN sorted |->
            IF sorted[n].kind = "agent"
            THEN [kind |-> "agent", index |-> sorted[n].index,
                  group |-> st.groups[sorted[n].ref]]
            ELSE sorted[n]]

\* ----------------------------- SpecGroups: the agent data parts of a message
\* Two agents whose ids are "a1" and "a10". A step carries the id of the
\* agent it was emitted for at the head of its id and of its stepId; the
\* update of a10 carries it in its stepId only. The field of names the
\* emitting agent for the checks and is not read by groupAgentDataParts.
AgentIds == {"a1", "a10"}

AgentStart(a) ==
    [ type |-> "data-agent-start", id |-> a \o "-start",
      data |-> [task |-> "t", tool |-> <<>>, agentId |-> a] ]

GroupStep(a) ==
    [ type |-> "data-agent-step", id |-> a \o "-step-1", of |-> a,
      data |-> [type |-> "text", status |-> "start",
                stepId |-> a \o "-step-1", contentId |-> "c1"] ]

GroupUpdate(a) ==
    [ type |-> "data-agent-step-update", id |-> "update-7", of |-> a,
      data |-> [type |-> "text", delta |-> "d", contentId |-> "c1",
                stepId |-> a \o "-step-1"] ]

AgentEnd(a) ==
    [ type |-> "data-agent-end", id |-> a \o "-end",
      data |-> [result |-> "r", agentId |-> a] ]

AgentError(a) ==
    [ type |-> "data-agent-error", id |-> a \o "-error",
      data |-> [error |-> "e", agentId |-> a] ]

GroupAlphabet ==
    {AgentStart(a) : a \in AgentIds}
    \cup {GroupStep(a) : a \in AgentIds}
    \cup {GroupUpdate("a10"), AgentEnd("a1"), AgentError("a10"),
          TextPart("parent")}

InitGroups == InitSegments

\* the next part of the streamed message arrives
AppendAgentData ==
    /\ Len(parts) < MaxParts
    /\ \E part \in GroupAlphabet : parts' = Append(parts, part)
    /\ UNCHANGED <<execVars, anaVars, clientVars, uiVars>>

NextGroups == AppendAgentData

SpecGroups == InitGroups /\ [][NextGroups]_vars

\* the ordered parts rendered for the parts known so far (useMemo, line 1551)
orderedParts == groupAgentDataParts(parts)

IsStepOf(part, a) ==
    (isAgentStepPart(part) \/ isAgentStepUpdatePart(part)) /\ part.of = a

\* the step and step-update parts of agent a among ps[from..to], in order
RECURSIVE StepsOf(_, _, _, _)
StepsOf(ps, a, from, to) ==
    IF to < from THEN <<>>
    ELSE IF IsStepOf(ps[to], a) THEN Append(StepsOf(ps, a, from, to - 1), ps[to])
    ELSE StepsOf(ps, a, from, to - 1)

\* the one-based position of the next start of agent a after position s,
\* the length of the list plus one if there is none
NextStartOf(ps, a, s) ==
    IF \E j \in (s + 1)..Len(ps) :
          isAgentStartPart(ps[j]) /\ ps[j].data.agentId = a
    THEN CHOOSE j \in (s + 1)..Len(ps) :
            /\ isAgentStartPart(ps[j]) /\ ps[j].data.agentId = a
            /\ \A h \in (s + 1)..(j - 1) :
                 ~(isAgentStartPart(ps[h]) /\ ps[h].data.agentId = a)
    ELSE Len(ps) + 1

\* every step and step-update known so far came after a start of the agent
\* it was emitted for
StepsFollowStart ==
    \A i \in DOMAIN parts : \A a \in AgentIds :
        IsStepOf(parts[i], a) =>
            \E s \in 1..(i - 1) :
                isAgentStartPart(parts[s]) /\ parts[s].data.agentId = a

\* C35: when every step and step-update arrives after the start of the
\* agent it was emitted for, each is attributed to the group of that agent
\* and to no other, also when the id of one started agent is a prefix of the
\* id of another: the steps of each group are the steps emitted for its
\* agent after the start of the group (and before a later start of the same
\* agent), in stream order.
C35_StepsGoToOwnAgent ==
    LET ordered == orderedParts
    IN  StepsFollowStart =>
            \A n \in DOMAIN ordered :
                ordered[n].kind = "agent" =>
                    LET group == ordered[n].group
                        s == group.startIndex + 1
                    IN  group.steps =
                            StepsOf(parts, group.agentId, s + 1,
                                    NextStartOf(parts, group.agentId, s) - 1)

\* --------------------- SpecCheckout: handlePlanSelect (upgrade-drawer.tsx)
\* One mounted UpgradeDrawer; UpgradeModal (src/unnamed/part_002, lines
\* 403-450) holds the same handler line for line. JavaScript runs the
\* handler up to its await in one piece; the request settles in a later turn.
MaxRequests == 3

PlanIds == {"free", "pro"}
Users == {Null, [isAnonymous |-> TRUE], [isAnonymous |-> FALSE]}
Products ==
    {Null, [premium |-> [id |-> ""]], [premium |-> [id |-> "prod_1"]]}

CheckoutUrl == "https://polar/checkout"

\* user?.isAnonymous
isAnonymousUser(u) == u # Null /\ u.isAnonymous

\* products?.premium?.id, "" for a value that is not there
premiumId(p) == IF p = Null THEN "" ELSE p.premium.id

\* variant: the guard of line 41 lets every call pass
checkoutBlockedNever(inFlight) == FALSE

\* line 41: if (isCheckoutInFlight.current) return
checkoutBlocked(inFlight) == inFlight

\* variant: the flag is left as it is when the request fails
flagAfterErrorKept(inFlight) == inFlight

\* line 75: isCheckoutInFlight.current = false
flagAfterError(inFlight) == FALSE

InitCheckout ==
    /\ user \in Users
    /\ products \in Products
    /\ isCheckoutInFlight = FALSE
    /\ checkoutRequests = <<>>
    /\ locationHref = None
    /\ routerPath = None
    /\ lastSelect = [planId |-> None, outcome |-> None, tick |-> 0]
    /\ parts = <<>>
    /\ OpenIdle
    /\ ExecIdle
    /\ AnaIdle
    /\ ClientIdle

Selected(planId, outcome) ==
    lastSelect' = [planId |-> planId, outcome |-> outcome,
                   tick |-> 1 - lastSelect.tick]

\* lines 38-68: a click on a plan, up to the await of generateCheckoutLink
HandlePlanSelect(planId) ==
    /\ IF checkoutBlocked(isCheckoutInFlight)
       THEN /\ Selected(planId, "in-flight")
            /\ UNCHANGED <<isCheckoutInFlight, checkoutRequests, routerPath>>
       ELSE IF planId = "free"
       THEN /\ Selected(planId, "free")
            /\ UNCHANGED <<isCheckoutInFlight, checkoutRequests, routerPath>>
       ELSE IF isAnonymousUser(user)
       THEN /\ Selected(planId, "auth")
            /\ routerPath' = "/auth"
            /\ UNCHANGED <<isCheckoutInFlight, checkoutRequests>>
       ELSE IF premiumId(products) = ""
       THEN /\ Selected(planId, "no-product")
            /\ UNCHANGED <<isCheckoutInFlight, checkoutRequests, routerPath>>
       ELSE /\ Len(checkoutRequests) < MaxRequests
            /\ Selected(planId, "requested")
            /\ isCheckoutInFlight' = TRUE
            /\ checkoutRequests' =
                  Append(checkoutRequests,
                         [productIds |-> <<premiumId(products)>>,
                          planId |-> planId, by |-> user,
                          status |-> "pending"])
            /\ UNCHANGED routerPath
    /\ UNCHANGED <<user, products, locationHref, parts, openVars, execVars,
                   anaVars, clientVars>>

\* lines 64-71: the request resolves, the page is sent to the checkout; the
\* flag stays set
CheckoutResolves ==
    /\ \E i \in DOMAIN checkoutRequests :
          /\ checkoutRequests[i].status = "pending"
          /\ checkoutRequests' =
                [checkoutRequests EXCEPT ![i].status = "resolved"]
    /\ locationHref' = CheckoutUrl
    /\ UNCHANGED <<user, products, isCheckoutInFlight, routerPath, lastSelect,
                   parts, openVars, execVars, anaVars, clientVars>>

\* lines 72-76: the request rejects, the flag is reset
CheckoutRejects ==
    /\ \E i \in DOMAIN checkoutRequests :
          /\ checkoutRequests[i].status = "pending"
          /\ checkoutRequests' =
                [checkoutRequests EXCEPT ![i].status = "rejected"]
    /\ isCheckoutInFlight' = flagAfterError(isCheckoutInFlight)
    /\ UNCHANGED <<user, products, locationHref, routerPath, lastSelect,
                   parts, openVars, execVars, anaVars, clientVars>>

\* line 33: the provider hands the component another user or other products
\* (sign-in, products loaded); the ref outlives the render
UserChanges ==
    /\ \E u \in Users, p \in Products :
          /\ <<u, p>> # <<user, products>>
          /\ user' = u
          /\ products' = p
    /\ UNCHANGED <<isCheckoutInFlight, checkoutRequests, locationHref,
                   routerPath, lastSelect, parts, openVars, execVars, anaVars,
                   clientVars>>

NextCheckout ==
    \/ \E planId \in PlanIds : HandlePlanSelect(planId)
    \/ CheckoutResolves
    \/ CheckoutRejects
    \/ UserChanges

SpecCheckout == InitCheckout /\ [][NextCheckout]_vars

Outstanding ==
    {i \in DOMAIN checkoutRequests : checkoutRequests[i].status = "pending"}

\* C37: of one instance at most one generateCheckoutLink request is
\* outstanding at any time, no request is started after one has succeeded,
\* and no request was started for the free plan, by an anonymous user or
\* without a premium product id.
C37_OneCheckoutAtATime ==
    /\ Cardinality(Outstanding) <= 1
    /\ \A i, j \in DOMAIN checkoutRequests :
          i < j => checkoutRequests[i].status # "resolved"
    /\ \A i \in DOMAIN checkoutRequests :
          /\ checkoutRequests[i].planId # "free"
          /\ ~isAnonymousUser(checkoutRequests[i].by)
          /\ checkoutRequests[i].productIds # <<"">>
          /\ Len(checkoutRequests[i].productIds) = 1

\* C37 witness: a second click while the first request is outstanding was
\* turned away, after an earlier request had failed
C37_Witness ==
    /\ Len(checkoutRequests) = 2
    /\ checkoutRequests[1].status = "rejected"
    /\ checkoutRequests[2].status = "pending"
    /\ lastSelect.outcome = "in-flight"
    /\ lastSelect.planId = "pro"

\* the request started last has failed
LastRequestFailed ==
    /\ checkoutRequests # <<>>
    /\ checkoutRequests[Len(checkoutRequests)].status = "rejected"

CanCheckout == ~isAnonymousUser(user) /\ premiumId(products) # ""

\* C38: a request that fails resets the in-flight flag, the flag is not set
\* while the request started last has failed, and the next handlePlanSelect
\* for a paid plan by a user who is not anonymous, with a premium product id,
\* then starts a new request.
C38_FailureUnlocksGuard ==
    [][ /\ \A i \in DOMAIN checkoutRequests :
             ( /\ checkoutRequests[i].status = "pending"
               /\ Len(checkoutRequests') = Len(checkoutRequests)
               /\ checkoutRequests'[i].status = "rejected" ) =>
                 ~isCheckoutInFlight'
        /\ LastRequestFailed => ~isCheckoutInFlight
        /\ ( /\ lastSelect'.tick # lastSelect.tick
             /\ lastSelect'.planId # "free"
             /\ LastRequestFailed
             /\ CanCheckout ) =>
               /\ Len(checkoutRequests') = Len(checkoutRequests) + 1
               /\ checkoutRequests'[Len(checkoutRequests')].status = "pending"
               /\ isCheckoutInFlight'
      ]_vars

\* C38 witness: after a failed request a new one was started and resolved
C38_Witness ==
    /\ Len(checkoutRequests) = 2
    /\ checkoutRequests[1].status = "rejected"
    /\ checkoutRequests[2].status = "resolved"
    /\ locationHref = CheckoutUrl
    /\ isCheckoutInFlight

\* -------------- SpecOpenStates: agentOpenStates of MessageAssistantInner
\* The open state of the agent segments of one message
\* (message-assistant.tsx): a stream update appends a part, the render
\* recomputes the segments and the effect of lines 1102-1145 runs; the user
\* toggles a rendered segment through its onOpenChange handler.
OpenAlphabet ==
    {StartPart(b) : b \in BoundaryIds}
    \cup {EndPart(b) : b \in BoundaryIds}
    \cup {TextPart("parent"), CreateAgentToolPart}

\* line 1104: the keys of the agent segments
activeKeys(agents) == {agents[n].key : n \in DOMAIN agents}

\* lines 1114-1123: the state of one segment
nextOpenState(previousState, overrides, segment) ==
    IF segment.key \in overrides /\ segment.key \in DOMAIN previousState
    THEN previousState[segment.key]
    ELSE ~agentSegmentHasEnd(segment)

\* lines 1111-1124: nextState, filled segment by segment
RECURSIVE nextStateOf(_, _, _, _)
nextStateOf(previousState, overrides, agents, n) ==
    IF n = 0 THEN [key \in {} |-> TRUE]
    ELSE LET rest == nextStateOf(previousState, overrides, agents, n - 1)
             key == agents[n].key
             open == nextOpenState(previousState, overrides, agents[n])
         IN  [k \in DOMAIN rest \cup {key} |->
                 IF k = key THEN open ELSE rest[k]]

\* lines 1126-1143: the previous object is kept when nothing differs
settleOpenStates(previousState, nextState) ==
    IF Cardinality(DOMAIN previousState) # Cardinality(DOMAIN nextState)
    THEN nextState
    ELSE IF \E key \in DOMAIN nextState :
               \/ key \notin DOMAIN previousState
               \/ previousState[key] # nextState[key]
    THEN nextState
    ELSE previousState

InitOpenStates == InitSegments

\* a part arrives; lines 1057-1068 and the effect of lines 1102-1145
StreamUpdate ==
    /\ Len(parts) < MaxParts
    /\ \E part \in OpenAlphabet :
          LET agents ==
                  agentSegments(
                      segmentPartsByAgentBoundaries(Append(parts, part)))
              overrides == agentManualOverrides \cap activeKeys(agents)
          IN  /\ parts' = Append(parts, part)
              /\ agentManualOverrides' = overrides
              /\ agentOpenStates' =
                    settleOpenStates(
                        agentOpenStates,
                        nextStateOf(agentOpenStates, overrides, agents,
                                    Len(agents)))
    /\ UNCHANGED <<checkoutVars, execVars, anaVars, clientVars>>

\* lines 1076-1088: onOpenChange of a rendered agent segment
OnOpenChange(key, open) ==
    /\ key \in activeKeys(agentSegments(segments))
    /\ agentManualOverrides' = agentManualOverrides \cup {key}
    /\ agentOpenStates' =
          IF key \in DOMAIN agentOpenStates /\ agentOpenStates[key] = open
          THEN agentOpenStates
          ELSE [k \in DOMAIN agentOpenStates \cup {key} |->
                   IF k = key THEN open ELSE agentOpenStates[k]]
    /\ UNCHANGED <<parts, checkoutVars, execVars, anaVars, clientVars>>

NextOpenStates ==
    \/ StreamUpdate
    \/ \E n \in DOMAIN agentSegments(segments), open \in BOOLEAN :
          OnOpenChange(agentSegments(segments)[n].key, open)

SpecOpenStates == InitOpenStates /\ [][NextOpenStates]_vars

\* a boundary-end is among the parts of the segment
EndObservedIn(segment) ==
    \E k \in DOMAIN segment.parts :
        /\ IsBoundaryMarker(segment.parts[k])
        /\ segment.parts[k].data.type = "end"

\* C39: a segment toggled by hand keeps its stored open state over later
\* stream updates, the arrival of its boundary-end included, as long as it
\* stays present; a segment never toggled has the stored open state "no end
\* observed"; no state is stored for a segment that is not present.
C39_ManualOverrideIsKept ==
    /\ [](LET agents == agentSegments(segments)
          IN  /\ \A n \in DOMAIN agents :
                   agents[n].key \notin agentManualOverrides =>
                       /\ agents[n].key \in DOMAIN agentOpenStates
                       /\ agentOpenStates[agents[n].key] =
                             ~EndObservedIn(agents[n])
              /\ DOMAIN agentOpenStates \subseteq activeKeys(agents))
    /\ [][\A key \in agentManualOverrides :
             ( /\ parts' # parts
               /\ key \in activeKeys(
                     agentSegments(segmentPartsByAgentBoundaries(parts'))) )
             => /\ key \in agentManualOverrides'
                /\ agentOpenStates'[key] = agentOpenStates[key]]_vars

====
